---- MODULE Spec2Model ----
(***************************************************************************)
(* Four-echelon supply-chain simulation (Retailer, Wholesaler,             *)
(* Distributor, Factory) driven by a weekly clock.                         *)
(*                                                                         *)
(* The model follows simulation/engine: SimulationEnvironment (core.py),   *)
(* SupplyChainNode (entities/base.py), the four role classes               *)
(* (entities/nodes.py) and MetricsCollector (metrics.py).  The SimPy       *)
(* scheduler is modelled by the variables now, turn and pc: the node       *)
(* processes are created Retailer, Wholesaler, Distributor, Factory and    *)
(* the monitor process is created last, so events of one week are          *)
(* processed in that order.  Each node iteration is split into the steps   *)
(* of the run() loop so that the intermediate states are visible.          *)
(***************************************************************************)
EXTENDS Integers, Sequences, FiniteSets, TLC

(***************************************************************************)
(* Bounds of the model.                                                    *)
(***************************************************************************)
MaxWeeks == 4

MaxCalls == 2

MetricsWeeks == 11

(***************************************************************************)
(* Program constants.                                                      *)
(***************************************************************************)
NoWeek == -1

DefaultOrderDelay == 2

DefaultShipmentDelay == 2

DefaultQuantity == 4

FallbackDemand == 4

DefaultBaseDemand == 4

\* PolicyParameters: the defaults of the policy manager.
DefaultBaseStockLevel == 20

DefaultForecastHorizon == 4

DefaultOrderingCost == 10

\* PolicyManager._execute_policy: `return 4`.
DefaultFallback == 4

\* PolicyManager.create_policy: `lambda week: 4`.
CustomFallback == 4

\* PolicyManager._silver_meal_policy: `return 4` without a forecast.
DefaultForecastless == 4

\* PolicyManager._estimate_average_demand: `return 4.0`.
DefaultAverageDemand == 4

\* update_demand_history keeps the last 52 observations.
DemandHistoryLimit == 52

\* _silver_meal_policy: `range(1, min(len(forecast) + 1, 8))`.
SilverMealPeriods == 7

\* calculate_bullwhip_effect: `self.metrics.total_weeks < 10`.
BullwhipMinWeeks == 10

Nodes == {"Retailer", "Wholesaler", "Distributor", "Factory"}

NodeSeq == <<"Retailer", "Wholesaler", "Distributor", "Factory">>

NoNode == "none"

Upstream(n) ==
    CASE n = "Retailer" -> "Wholesaler"
      [] n = "Wholesaler" -> "Distributor"
      [] n = "Distributor" -> "Factory"
      [] OTHER -> NoNode

Downstream(n) ==
    CASE n = "Wholesaler" -> "Retailer"
      [] n = "Distributor" -> "Wholesaler"
      [] n = "Factory" -> "Distributor"
      [] OTHER -> NoNode

(***************************************************************************)
(* Configurations the environment is constructed with.                     *)
(***************************************************************************)
DelayValues == {0, 1, 2}

InventoryValues == {0, 3}

BacklogValues == {0, 2}

CapacityValues == {3}

\* demand_type with demand_params left unset (None).
NoDemandParams(type) == [type |-> type, demand_params |-> "None"]

DemandConfigs ==
    { [type |-> "constant", base_demand |-> 4, step_week |-> 0, step_demand |-> 0],
      [type |-> "step", base_demand |-> 1, step_week |-> 1, step_demand |-> 5],
      [type |-> "bogus", base_demand |-> 1, step_week |-> 0, step_demand |-> 0],
      NoDemandParams("constant") }

SimulationConfig ==
    [ weeks : {MaxWeeks},
      initial_inventory : InventoryValues,
      initial_backlog : BacklogValues,
      holding_cost_per_unit : {1},
      backlog_cost_per_unit : {2},
      order_delay : DelayValues,
      shipment_delay : DelayValues,
      production_delay : DelayValues,
      production_capacity : CapacityValues,
      demand : DemandConfigs ]

(***************************************************************************)
(* Ordering policies: a policy is a callable week -> quantity.  The        *)
(* default policy of each role, a policy returning a fixed quantity         *)
(* (possibly negative) and a policy that raises are modelled.              *)
(***************************************************************************)
DefaultPolicy == [kind |-> "default", q |-> 0]

ConstPolicy(k) == [kind |-> "const", q |-> k]

RaisingPolicy == [kind |-> "raise", q |-> 0]

NoPolicy == [kind |-> "none", q |-> 0]

PolicyQuantities == {-1, 0, 2, 5}

SuppliedPolicies == {ConstPolicy(k) : k \in PolicyQuantities} \cup {RaisingPolicy}

VARIABLES
    config,              \* SimulationEnvironment.config
    status,              \* SimulationEnvironment.status
    now,                 \* env.now
    weeks_to_run,        \* local of run(): the `until` of env.run
    inventory,           \* node.inventory
    backlog,             \* node.backlog
    pending_orders,      \* node.pending_orders
    incoming_shipments,  \* node.incoming_shipments
    outgoing_shipments,  \* node.outgoing_shipments
    orders_placed,       \* node.orders_placed
    orders_received,     \* node.orders_received
    history,             \* node.history, one record per recorded week
    order_policy,        \* node.order_policy
    customer_demands,    \* retailer.customer_demands
    production_queue,    \* factory.production_queue
    metrics,             \* metrics_collector.metrics
    turn,                \* index in schedule.order of the node process that runs
    pc,                  \* position of the running process
    calls,               \* number of API calls made by the caller so far
    last_call,           \* the last API call and its outcome
    created,             \* log: orders, shipments and jobs enqueued, and when
    consumed,            \* log: orders, shipments and jobs consumed, and when
    replay,              \* log: the caller's inputs to this construction, and the
                         \* inputs and histories of an earlier completed one
    schedule,            \* the order in which SimPy resumes the node processes
                         \* of the current week
    policy_manager,      \* a PolicyManager, the policy it created last and
                         \* what that policy returned last
    game                 \* GameController.state, with the controller's
                         \* simulation (set or None) and the player's calls

nodeVars == <<inventory, backlog, pending_orders, incoming_shipments,
              outgoing_shipments, orders_placed, orders_received, history,
              customer_demands, production_queue>>

engineVars == <<config, status, now, weeks_to_run, nodeVars, order_policy, metrics>>

engineSide == <<engineVars, turn, pc, calls, last_call, created, consumed, replay, schedule>>

vars == <<engineSide, policy_manager, game>>

(***************************************************************************)
(* Helpers on sequences and integers.                                      *)
(***************************************************************************)
Min(a, b) == IF a < b THEN a ELSE b

Max(a, b) == IF a > b THEN a ELSE b

RECURSIVE SumQuantity(_)
SumQuantity(s) == IF s = <<>> THEN 0 ELSE Head(s).quantity + SumQuantity(Tail(s))

RECURSIVE RemoveFirst(_, _)
RemoveFirst(s, x) ==
    IF s = <<>> THEN <<>>
    ELSE IF Head(s) = x THEN Tail(s)
    ELSE <<Head(s)>> \o RemoveFirst(Tail(s), x)

RECURSIVE RemoveAll(_, _)
RemoveAll(s, xs) ==
    IF xs = <<>> THEN s ELSE RemoveAll(RemoveFirst(s, Head(xs)), Tail(xs))

Last(s) == s[Len(s)]

(***************************************************************************)
(* Construction: SimulationEnvironment.__init__ and the node constructors. *)
(***************************************************************************)
\* The delays a node works with.  Factory.__init__ passes neither
\* order_delay nor shipment_delay to SupplyChainNode.__init__, so the
\* Factory keeps the defaults of the base class.
\* Mutant: orders arrive in the week in which they are placed.
NodeOrderDelay_SameWeek(n) == 0

NodeOrderDelay(n) ==
    IF n = "Factory" THEN DefaultOrderDelay ELSE config.order_delay

NodeShipmentDelay(n) ==
    IF n = "Factory" THEN DefaultShipmentDelay ELSE config.shipment_delay

\* Ratios (fill rate, bullwhip ratio) are kept as exact fractions.
Zero == [num |-> 0, den |-> 1]

One == [num |-> 1, den |-> 1]

EmptyMetrics ==
    [ total_weeks |-> 0,
      fill_rate |-> Zero,
      bullwhip_ratio |-> Zero,
      total_cost |-> 0,
      total_holding_cost |-> 0,
      total_backlog_cost |-> 0,
      node_histories |-> [n \in Nodes |-> <<>>] ]

\* GameRules: `max_weeks: int = 52`.
DefaultMaxWeeks == 52

\* GameController.__init__: the game is in SETUP at week 0, without players
\* and without a simulation (None until initialize_game); total_weeks is the
\* max_weeks of the rules.  A player's id is its index in players.
GameController(max_weeks) ==
    [ status |-> "setup",
      current_week |-> 0,
      total_weeks |-> max_weeks,
      players |-> <<>>,
      simulation |-> FALSE,
      total_cost |-> 0,
      service_level |-> One,
      bullwhip_ratio |-> Zero ]

\* Nothing was asked of this construction yet and none was run before it.
NoReplay == [inputs |-> <<>>, first |-> <<>>]

CreationOrder == [allowed |-> {NodeSeq}, order |-> NodeSeq]

\* PolicyManager.__init__: no custom policy registered, no demand observed.
\* policy is the policy function create_policy returned last and returned
\* the week and the quantity of its last call, with the demand history and
\* the registration of the policy's name at the time of the call.
PolicyNames == {"aggressive", "cautious"}

NoCreatedPolicy == [type |-> "none"]

NewPolicyManager(horizon) ==
    [ forecast_horizon |-> horizon,
      demand_history |-> <<>>,
      custom_policies |-> [name \in PolicyNames |-> NoPolicy],
      policy |-> NoCreatedPolicy,
      returned |-> <<>> ]

\* SimulationConfig.__post_init__: unset demand_params become
\* {"base_demand": 4}.
PostInit(c) ==
    IF "demand_params" \in DOMAIN c.demand
    THEN [c EXCEPT !.demand = [type |-> c.demand.type, base_demand |-> DefaultBaseDemand]]
    ELSE c

Construct(c) ==
    /\ config = PostInit(c)
    /\ status = "ready"
    /\ now = 0
    /\ weeks_to_run = 0
    /\ inventory = [n \in Nodes |-> c.initial_inventory]
    /\ backlog = [n \in Nodes |-> c.initial_backlog]
    /\ pending_orders = [n \in Nodes |-> <<>>]
    /\ incoming_shipments = [n \in Nodes |-> <<>>]
    /\ outgoing_shipments = [n \in Nodes |-> <<>>]
    /\ orders_placed = [n \in Nodes |-> <<>>]
    /\ orders_received = [n \in Nodes |-> <<>>]
    /\ history = [n \in Nodes |-> <<>>]
    /\ order_policy = [n \in Nodes |-> DefaultPolicy]
    /\ customer_demands = <<>>
    /\ production_queue = <<>>
    /\ metrics = EmptyMetrics

Init ==
    /\ \E c \in SimulationConfig : Construct(c)
    /\ turn = 0
    /\ pc = "idle"
    /\ calls = 0
    /\ last_call = [op |-> "none", result |-> "ok"]
    /\ created = <<>>
    /\ consumed = <<>>
    /\ replay = NoReplay
    /\ schedule = CreationOrder
    /\ policy_manager = NewPolicyManager(DefaultForecastHorizon)
    /\ game = GameController(DefaultMaxWeeks)

(***************************************************************************)
(* Demand pattern: SimulationEnvironment._create_demand_pattern.           *)
(***************************************************************************)
\* params.get(key, default) on the demand_params of the configuration.
Get(p, key, default) == IF key \in DOMAIN p THEN p[key] ELSE default

\* Mutant: the demand depends on how often the environment was used before.
DemandPattern_Drift(week) == FallbackDemand + calls

\* Mutant: an unknown demand type is served as constant demand.
DemandPattern_UsesParams(week) == Get(config.demand, "base_demand", 4)

DemandPattern(week) ==
    LET p == config.demand IN
    CASE p.type = "constant" -> Get(p, "base_demand", 4)
      [] p.type = "step" ->
            IF week >= Get(p, "step_week", 5)
            THEN Get(p, "step_demand", 8)
            ELSE Get(p, "base_demand", 4)
      [] OTHER -> FallbackDemand

(***************************************************************************)
(* SupplyChainNode.receive_order, on the fields of one node.               *)
(***************************************************************************)
\* Mutant: the shipped quantity is not limited by the inventory.
QuantityToShip_Unlimited(quantity, b, i) == quantity + b

QuantityToShip(quantity, b, i) == Min(quantity + b, i)

\* Mutant: the prior backlog is forgotten.
Unfulfilled_NoCarry(quantity, b, shipped) == Max(0, quantity - shipped)

Unfulfilled(quantity, b, shipped) == Max(0, quantity + b - shipped)

NodeAcc(n) ==
    [ inventory |-> inventory[n],
      backlog |-> backlog[n],
      orders_received |-> orders_received[n],
      outgoing_shipments |-> outgoing_shipments[n],
      delivered |-> <<>> ]

ReceiveOrder(acc, order, n, week) ==
    LET quantity_to_ship == QuantityToShip(order.quantity, acc.backlog, acc.inventory)
        shipment == [ quantity |-> quantity_to_ship,
                      from_node |-> n,
                      to_node |-> order.from_node,
                      week_shipped |-> week,
                      week_to_arrive |-> week + NodeShipmentDelay(n) ]
    IN  [ inventory |-> IF quantity_to_ship > 0
                        THEN acc.inventory - quantity_to_ship
                        ELSE acc.inventory,
          backlog |-> Unfulfilled(order.quantity, acc.backlog, quantity_to_ship),
          orders_received |-> Append(acc.orders_received, order),
          outgoing_shipments |-> IF quantity_to_ship > 0
                                 THEN Append(acc.outgoing_shipments, shipment)
                                 ELSE acc.outgoing_shipments,
          delivered |-> IF quantity_to_ship > 0 /\ Downstream(n) # NoNode
                        THEN Append(acc.delivered, shipment)
                        ELSE acc.delivered ]

RECURSIVE ReceiveOrders(_, _, _, _)
ReceiveOrders(acc, orders, n, week) ==
    IF orders = <<>> THEN acc
    ELSE ReceiveOrders(ReceiveOrder(acc, Head(orders), n, week), Tail(orders), n, week)

\* Log entries for the orders, shipments and production jobs.
OrderEntry(o, week, n) ==
    [ kind |-> "order", quantity |-> o.quantity, from_node |-> o.from_node,
      created |-> o.week_placed, due |-> o.week_to_arrive, week |-> week, node |-> n ]

ShipmentEntry(s, week, n) ==
    [ kind |-> "shipment", quantity |-> s.quantity, from_node |-> s.from_node,
      created |-> s.week_shipped, due |-> s.week_to_arrive, week |-> week, node |-> n ]

JobEntry(j, made, week, n) ==
    [ kind |-> "job", quantity |-> j.quantity, from_node |-> "Factory",
      created |-> made, due |-> j.complete_week, week |-> week, node |-> n ]

RECURSIVE OrderEntries(_, _, _)
OrderEntries(s, week, n) ==
    IF s = <<>> THEN <<>>
    ELSE <<OrderEntry(Head(s), week, n)>> \o OrderEntries(Tail(s), week, n)

RECURSIVE ShipmentEntries(_, _, _)
ShipmentEntries(s, week, n) ==
    IF s = <<>> THEN <<>>
    ELSE <<ShipmentEntry(Head(s), week, n)>> \o ShipmentEntries(Tail(s), week, n)

RECURSIVE JobEntries(_, _, _)
JobEntries(s, week, n) ==
    IF s = <<>> THEN <<>>
    ELSE <<JobEntry(Head(s), NoWeek, week, n)>> \o JobEntries(Tail(s), week, n)

\* The running node and the step its run() loop starts an iteration with.
Running == IF turn \in 1..Len(schedule.order) THEN schedule.order[turn] ELSE NoNode

\* Mutant: the Retailer handles the arrivals before the customer demand.
FirstStep_ArrivalsFirst(n) ==
    CASE n = "Factory" -> "production"
      [] OTHER -> "shipments"

FirstStep(n) ==
    CASE n = "Retailer" -> "demand"
      [] n = "Factory" -> "production"
      [] OTHER -> "shipments"

InRun == pc \in {"demand", "shipments", "production", "orders", "policy", "record"}

(***************************************************************************)
(* Retailer.process_customer_demand (first step of Retailer.run).          *)
(***************************************************************************)
ProcessCustomerDemand ==
    /\ pc = "demand"
    /\ Running = "Retailer"
    /\ LET demand == DemandPattern(now)
           customer_order == [ quantity |-> demand, week_placed |-> now,
                               from_node |-> "customer", to_node |-> "Retailer",
                               week_to_arrive |-> NoWeek ]
           r == ReceiveOrder(NodeAcc("Retailer"), customer_order, "Retailer", now)
       IN  /\ customer_demands' = Append(customer_demands, demand)
           /\ inventory' = [inventory EXCEPT !["Retailer"] = r.inventory]
           /\ backlog' = [backlog EXCEPT !["Retailer"] = r.backlog]
           /\ orders_received' = [orders_received EXCEPT !["Retailer"] = r.orders_received]
           /\ outgoing_shipments' =
                  [outgoing_shipments EXCEPT !["Retailer"] = r.outgoing_shipments]
    /\ pc' = "shipments"
    /\ UNCHANGED <<config, status, now, weeks_to_run, pending_orders, incoming_shipments,
                   orders_placed, history, order_policy, production_queue, metrics,
                   turn, calls, last_call, created, consumed>>
    /\ UNCHANGED <<replay, schedule, policy_manager, game>>

(***************************************************************************)
(* Arrived shipments: SupplyChainNode.run / Retailer.run, receive_shipment.*)
(***************************************************************************)
ArrivedShipments(n, week) ==
    SelectSeq(incoming_shipments[n], LAMBDA s : s.week_to_arrive = week)

\* Mutant: an arrived shipment is dropped.
ReceiveShipment_Dropped(i, quantity) == i

\* SupplyChainNode.receive_shipment: `self.inventory += shipment.quantity`.
ReceiveShipment(i, quantity) == i + quantity

RECURSIVE ReceiveAll(_, _)
ReceiveAll(i, arrived) ==
    IF arrived = <<>> THEN i
    ELSE ReceiveAll(ReceiveShipment(i, Head(arrived).quantity), Tail(arrived))

ReceiveShipments ==
    /\ pc = "shipments"
    /\ Running \in {"Retailer", "Wholesaler", "Distributor"}
    /\ LET n == Running
           arrived_shipments == ArrivedShipments(n, now)
       IN  /\ inventory' = [inventory EXCEPT ![n] = ReceiveAll(@, arrived_shipments)]
           /\ incoming_shipments' =
                  [incoming_shipments EXCEPT ![n] = RemoveAll(@, arrived_shipments)]
           /\ consumed' = consumed \o ShipmentEntries(arrived_shipments, now, n)
           /\ pc' = IF n = "Retailer" THEN "policy" ELSE "orders"
    /\ UNCHANGED <<config, status, now, weeks_to_run, backlog, pending_orders,
                   outgoing_shipments, orders_placed, orders_received, history,
                   order_policy, customer_demands, production_queue, metrics,
                   turn, calls, last_call, created>>
    /\ UNCHANGED <<replay, schedule, policy_manager, game>>

(***************************************************************************)
(* Completed production: first step of Factory.run.                        *)
(***************************************************************************)
CompletedProduction(week) ==
    SelectSeq(production_queue, LAMBDA p : p.complete_week = week)

CompleteProduction ==
    /\ pc = "production"
    /\ Running = "Factory"
    /\ LET completed_production == CompletedProduction(now)
       IN  /\ inventory' =
                  [inventory EXCEPT !["Factory"] = @ + SumQuantity(completed_production)]
           /\ production_queue' = RemoveAll(production_queue, completed_production)
           /\ consumed' = consumed \o JobEntries(completed_production, now, "Factory")
    /\ pc' = "orders"
    /\ UNCHANGED <<config, status, now, weeks_to_run, backlog, pending_orders,
                   incoming_shipments, outgoing_shipments, orders_placed,
                   orders_received, history, order_policy, customer_demands, metrics,
                   turn, calls, last_call, created>>
    /\ UNCHANGED <<replay, schedule, policy_manager, game>>

(***************************************************************************)
(* Arrived orders: SupplyChainNode.run / Factory.run, receive_order.       *)
(***************************************************************************)
ArrivedOrders(n, week) ==
    SelectSeq(pending_orders[n], LAMBDA o : o.week_to_arrive = week)

ReceiveArrivedOrders ==
    /\ pc = "orders"
    /\ Running \in {"Wholesaler", "Distributor", "Factory"}
    /\ LET n == Running
           arrived_orders == ArrivedOrders(n, now)
           r == ReceiveOrders(NodeAcc(n), arrived_orders, n, now)
       IN  /\ inventory' = [inventory EXCEPT ![n] = r.inventory]
           /\ backlog' = [backlog EXCEPT ![n] = r.backlog]
           /\ orders_received' = [orders_received EXCEPT ![n] = r.orders_received]
           /\ outgoing_shipments' = [outgoing_shipments EXCEPT ![n] = r.outgoing_shipments]
           /\ incoming_shipments' =
                  [incoming_shipments EXCEPT ![Downstream(n)] = @ \o r.delivered]
           /\ pending_orders' = [pending_orders EXCEPT ![n] = RemoveAll(@, arrived_orders)]
           /\ consumed' = consumed \o OrderEntries(arrived_orders, now, n)
           /\ created' = created \o ShipmentEntries(r.delivered, now, n)
    /\ pc' = "policy"
    /\ UNCHANGED <<config, status, now, weeks_to_run, orders_placed, history,
                   order_policy, customer_demands, production_queue, metrics,
                   turn, calls, last_call>>
    /\ UNCHANGED <<replay, schedule, policy_manager, game>>

(***************************************************************************)
(* Ordering policies: the default_order_policy of each role.               *)
(***************************************************************************)
RecentOrders(n, week) ==
    SelectSeq(orders_received[n], LAMBDA o : o.week_placed >= week - 1)

DefaultOrderPolicy(n, week) ==
    CASE n = "Retailer" ->
            IF customer_demands # <<>> THEN Last(customer_demands) ELSE DefaultQuantity
      [] n = "Factory" ->
            IF orders_received[n] # <<>> /\ RecentOrders(n, week) # <<>>
            THEN Min(Last(RecentOrders(n, week)).quantity, config.production_capacity)
            ELSE DefaultQuantity
      [] OTHER ->
            IF orders_received[n] # <<>> /\ RecentOrders(n, week) # <<>>
            THEN Last(RecentOrders(n, week)).quantity
            ELSE DefaultQuantity

\* get_order_quantity: the quantity the node's policy returns.
GetOrderQuantity(n, week) ==
    IF order_policy[n].kind = "const" THEN order_policy[n].q
    ELSE DefaultOrderPolicy(n, week)

\* Mutant: only a zero quantity is skipped.
OrderIsPlaced_NonZero(order_quantity) == order_quantity # 0

\* `if order_quantity > 0:` in the run() loops.
OrderIsPlaced(order_quantity) == order_quantity > 0

\* Mutant: the order is scheduled one week late.
NewOrder_Late(n, quantity, week) ==
    [ quantity |-> quantity,
      week_placed |-> week,
      from_node |-> n,
      to_node |-> Upstream(n),
      week_to_arrive |-> week + NodeOrderDelay(n) + 1 ]

\* SupplyChainNode.place_order: the Order a non-factory node creates.
NewOrder(n, quantity, week) ==
    [ quantity |-> quantity,
      week_placed |-> week,
      from_node |-> n,
      to_node |-> Upstream(n),
      week_to_arrive |-> week + NodeOrderDelay(n) ]

\* Mutant: the production capacity is not applied.
NewJob_Uncapped(quantity, week) ==
    [ quantity |-> quantity,
      complete_week |-> week + config.production_delay ]

\* Factory.place_order: the production job the Factory schedules.
NewJob(quantity, week) ==
    [ quantity |-> Min(quantity, config.production_capacity),
      complete_week |-> week + config.production_delay ]

\* Mutant: the failure of a policy is swallowed and the run is reported
\* as completed.
RunFails_Completed ==
    /\ status' = "completed"
    /\ pc' = "idle"
    /\ turn' = 0
    /\ last_call' = [op |-> "run", result |-> "ok"]

\* The exception of a policy leaves the node process, env.run and is caught
\* by the except clause of SimulationEnvironment.run.
RunFails ==
    /\ status' = "error"
    /\ pc' = "idle"
    /\ turn' = 0
    /\ last_call' = [op |-> "run", result |-> "RuntimeError"]

DecideOrder ==
    /\ pc = "policy"
    /\ Running \in Nodes
    /\ LET n == Running IN
       IF order_policy[n].kind = "raise"
       THEN /\ RunFails
            /\ UNCHANGED <<config, now, weeks_to_run, nodeVars, order_policy, metrics,
                           calls, created, consumed>>
       ELSE LET order_quantity == GetOrderQuantity(n, now) IN
            /\ IF ~OrderIsPlaced(order_quantity)
               THEN UNCHANGED <<orders_placed, pending_orders, production_queue, created>>
               ELSE IF n = "Factory"
               THEN /\ production_queue' = Append(production_queue, NewJob(order_quantity, now))
                    /\ created' = Append(created,
                                         JobEntry(NewJob(order_quantity, now), now, now, n))
                    /\ UNCHANGED <<orders_placed, pending_orders>>
               ELSE /\ orders_placed' =
                           [orders_placed EXCEPT ![n] = Append(@, NewOrder(n, order_quantity, now))]
                    /\ pending_orders' =
                           [pending_orders EXCEPT
                               ![Upstream(n)] = Append(@, NewOrder(n, order_quantity, now))]
                    /\ created' = Append(created,
                                         OrderEntry(NewOrder(n, order_quantity, now), now, n))
                    /\ UNCHANGED production_queue
            /\ pc' = "record"
            /\ UNCHANGED <<config, status, now, weeks_to_run, inventory, backlog,
                           incoming_shipments, outgoing_shipments, orders_received,
                           history, order_policy, customer_demands, metrics,
                           turn, calls, last_call, consumed>>
    /\ UNCHANGED <<replay, schedule, policy_manager, game>>

(***************************************************************************)
(* SupplyChainNode.calculate_costs and record_metrics.                     *)
(***************************************************************************)
\* Mutant: the holding cost accumulates over the weeks.
HoldingCost_Cumulative(n) ==
    inventory[n] * config.holding_cost_per_unit
        + (IF history[n] # <<>> THEN Last(history[n]).holding_cost ELSE 0)

HoldingCost(n) == inventory[n] * config.holding_cost_per_unit

BacklogCost(n) == backlog[n] * config.backlog_cost_per_unit

HistoryRecord(n, week) ==
    [ week |-> week,
      inventory |-> inventory[n],
      backlog |-> backlog[n],
      orders_placed |->
          SumQuantity(SelectSeq(orders_placed[n], LAMBDA o : o.week_placed = week)),
      orders_received |->
          SumQuantity(SelectSeq(orders_received[n], LAMBDA o : o.week_placed = week)),
      shipments_sent |->
          SumQuantity(SelectSeq(outgoing_shipments[n], LAMBDA s : s.week_shipped = week)),
      shipments_received |->
          SumQuantity(SelectSeq(incoming_shipments[n], LAMBDA s : s.week_to_arrive = week)),
      holding_cost |-> HoldingCost(n),
      backlog_cost |-> BacklogCost(n),
      total_cost |-> HoldingCost(n) + BacklogCost(n) ]

\* Mutant: the monitor is resumed after the first node process of the week.
MoreProcesses_None == FALSE

\* The node processes of the week that SimPy has still to resume before the
\* monitor, whose process run() created after those of the nodes.
MoreProcesses == turn < Len(schedule.order)

\* record_metrics, then `yield self.env.timeout(1)`: the next process of the
\* week runs, the monitor after the Factory.
RecordMetrics ==
    /\ pc = "record"
    /\ Running \in Nodes
    /\ history' = [history EXCEPT ![Running] = Append(@, HistoryRecord(Running, now))]
    /\ IF MoreProcesses
       THEN /\ turn' = turn + 1
            /\ pc' = FirstStep(schedule.order[turn + 1])
       ELSE /\ turn' = 0
            /\ pc' = "monitor"
    /\ UNCHANGED <<config, status, now, weeks_to_run, inventory, backlog, pending_orders,
                   incoming_shipments, outgoing_shipments, orders_placed,
                   orders_received, order_policy, customer_demands, production_queue,
                   metrics, calls, last_call, created, consumed>>
    /\ UNCHANGED <<replay, schedule, policy_manager, game>>

(***************************************************************************)
(* MetricsCollector.collect_current_metrics.                               *)
(***************************************************************************)
RECURSIVE SumField(_, _)
SumField(h, f) == IF h = <<>> THEN 0 ELSE Head(h)[f] + SumField(Tail(h), f)

RECURSIVE SumOverNodes(_, _)
SumOverNodes(ns, f) ==
    IF ns = <<>> THEN 0 ELSE SumField(history[Head(ns)], f) + SumOverNodes(Tail(ns), f)

CollectCurrentMetrics(week) ==
    [ total_weeks |-> week,
      fill_rate |-> metrics.fill_rate,
      bullwhip_ratio |-> metrics.bullwhip_ratio,
      total_cost |-> metrics.total_cost + SumOverNodes(NodeSeq, "total_cost"),
      total_holding_cost |->
          metrics.total_holding_cost + SumOverNodes(NodeSeq, "holding_cost"),
      total_backlog_cost |->
          metrics.total_backlog_cost + SumOverNodes(NodeSeq, "backlog_cost"),
      node_histories |->
          [n \in Nodes |-> IF history[n] # <<>> THEN history[n]
                           ELSE metrics.node_histories[n]] ]

(***************************************************************************)
(* MetricsCollector.calculate_bullwhip_effect, calculate_service_levels    *)
(* and get_summary_statistics, on the collector's metrics m.               *)
(***************************************************************************)
RECURSIVE SumSqField(_, _)
SumSqField(h, f) ==
    IF h = <<>> THEN 0 ELSE Head(h)[f] * Head(h)[f] + SumSqField(Tail(h), f)

\* np.var of the series f of h, multiplied by Len(h)^2.
VarianceN(h, f) == Len(h) * SumSqField(h, f) - SumField(h, f) * SumField(h, f)

\* Mutant: the ratio is computed whatever the retailer's variance is.
HasVariance_Always(v) == TRUE

\* `if retailer_var > 0:`
HasVariance(v) == v > 0

CalculateBullwhipEffect(m) ==
    LET retailer_orders == m.node_histories["Retailer"]
        factory_orders == m.node_histories["Factory"]
        retailer_var == VarianceN(retailer_orders, "orders_placed")
        factory_var == VarianceN(factory_orders, "orders_placed")
    IN  IF m.total_weeks < BullwhipMinWeeks THEN m.bullwhip_ratio
        ELSE IF Len(retailer_orders) > 1 /\ Len(factory_orders) > 1
        THEN IF HasVariance(retailer_var)
             THEN [ num |-> factory_var * Len(retailer_orders) * Len(retailer_orders),
                    den |-> retailer_var * Len(factory_orders) * Len(factory_orders) ]
             ELSE Zero
        ELSE m.bullwhip_ratio

\* The fill rate calculate_service_levels gives a node with history h.
FillRate(h) ==
    LET total_demand == SumField(h, "orders_received")
        total_backlog == SumField(h, "backlog")
    IN  IF total_demand > 0
        THEN [num |-> total_demand - total_backlog, den |-> total_demand]
        ELSE One

\* The nodes calculate_service_levels reports: those with collected history.
CalculateServiceLevels(m) ==
    [n \in {k \in Nodes : m.node_histories[k] # <<>>} |-> FillRate(m.node_histories[n])]

\* Fractions are kept in lowest terms, so that equal values are equal records.
Abs(a) == IF a < 0 THEN -a ELSE a

RECURSIVE GCD(_, _)
GCD(a, b) == IF b = 0 THEN a ELSE GCD(b, a % b)

\* num / den in lowest terms (num and den are evaluated once, as n and d).
Fraction(num, den) ==
    CHOOSE f \in { [num |-> n \div GCD(Abs(n), d), den |-> d \div GCD(Abs(n), d)] :
                      n \in {num}, d \in {den} } : TRUE

FractionSum(a, b) == Fraction(a.num * b.den + b.num * a.den, a.den * b.den)

RECURSIVE SumFillRates(_, _)
SumFillRates(sl, ns) ==
    IF ns = <<>> THEN Zero
    ELSE IF Head(ns) \in DOMAIN sl
    THEN FractionSum(sl[Head(ns)], SumFillRates(sl, Tail(ns)))
    ELSE SumFillRates(sl, Tail(ns))

\* np.mean of the fill rates of the reported nodes.
MeanFillRate(sl) ==
    LET total == SumFillRates(sl, NodeSeq) IN
    Fraction(total.num, total.den * Cardinality(DOMAIN sl))

\* get_summary_statistics (and finalize): both recompute the stored ratios.
GetSummaryStatistics(m) ==
    LET service_levels == CalculateServiceLevels(m) IN
    [ m EXCEPT !.bullwhip_ratio = CalculateBullwhipEffect(m),
               !.fill_rate = IF DOMAIN service_levels # {}
                             THEN MeanFillRate(service_levels)
                             ELSE @ ]

\* SimPy resumes the processes that wait on timeouts of the same week in the
\* order in which they were scheduled, which is the order in which
\* _initialize_supply_chain created the nodes.  schedule.allowed holds the
\* orders the scheduler may use: the creation order alone for the engine as
\* it is built.
Resume_Processes ==
    \E o \in schedule.allowed :
        /\ schedule' = [schedule EXCEPT !.order = o]
        /\ pc' = FirstStep(o[1])

(***************************************************************************)
(* The clock: env.run(until=weeks_to_run).  The `until` event is urgent, so *)
(* at time weeks_to_run the run stops before any process of that week.      *)
(***************************************************************************)
\* Mutant: the run stops one week after the requested number of weeks.
NextWeek_Overrun ==
    /\ now' = now + 1
    /\ IF now + 1 = weeks_to_run + 1
       THEN /\ turn' = 0
            /\ pc' = "finish"
            /\ UNCHANGED schedule
       ELSE /\ turn' = 1
            /\ Resume_Processes

NextWeek ==
    /\ now' = now + 1
    /\ IF now + 1 = weeks_to_run
       THEN /\ turn' = 0
            /\ pc' = "finish"
            /\ UNCHANGED schedule
       ELSE /\ turn' = 1
            /\ Resume_Processes

\* SimulationEnvironment._monitor_progress.  The process is started by run(),
\* after the node processes: its first activation (week 0) only tests the
\* loop condition and waits; every later one collects the metrics and hands
\* control to the on_week_complete callback, with get_current_state() (which
\* asks the collector for its summary) as argument.
MonitorProgress ==
    /\ pc = "monitor"
    /\ IF now = 0
       THEN /\ NextWeek
            /\ UNCHANGED metrics
       ELSE /\ \E collected \in {CollectCurrentMetrics(now)} :
                   metrics' = GetSummaryStatistics(collected)
            /\ pc' = "callback"
            /\ UNCHANGED <<now, turn, schedule>>
    /\ UNCHANGED <<config, status, weeks_to_run, nodeVars, order_policy,
                   calls, last_call, created, consumed>>
    /\ UNCHANGED <<replay, policy_manager, game>>

\* The on_week_complete callback returns; the monitor waits for the next week.
CallbackReturns ==
    /\ pc = "callback"
    /\ NextWeek
    /\ UNCHANGED <<config, status, weeks_to_run, nodeVars, order_policy, metrics,
                   calls, last_call, created, consumed>>
    /\ UNCHANGED <<replay, policy_manager, game>>

(***************************************************************************)
(* SimulationEnvironment.run.                                              *)
(***************************************************************************)
\* The `weeks` argument of run(); 0 stands for None (`weeks or config.weeks`).
RunWeeks == {0, 1}

\* The caller (the code that constructed the environment, or the
\* on_week_complete callback) is in control and may call the API.
\* "detached" and "detached_raise": the callback of a run whose environment
\* was replaced by reset().
CallerHasControl == pc \in {"idle", "callback", "detached", "detached_raise"}

\* Mutant: a finished run may be started again.
RunIsRejected_AfterCompleted == status \notin {"ready", "completed"}

\* `if self.status != SimulationStatus.READY: raise RuntimeError`
RunIsRejected == status # "ready"

WeeksToRun(weeks) == IF weeks # 0 THEN weeks ELSE config.weeks

\* run() from READY: status RUNNING, the monitor process is started and
\* env.run begins with the Retailer's iteration of week `now`.
Run ==
    /\ pc = "idle"
    /\ ~RunIsRejected
    /\ \E weeks \in RunWeeks :
           /\ weeks_to_run' = WeeksToRun(weeks)
           /\ replay' = [replay EXCEPT
                            !.inputs = Append(@, [op |-> "run", weeks |-> weeks,
                                                  args |-> <<>>, week |-> now])]
    /\ status' = "running"
    /\ turn' = 1
    /\ Resume_Processes
    /\ last_call' = [op |-> "run", result |-> "pending"]
    /\ UNCHANGED <<config, now, nodeVars, order_policy, metrics,
                   calls, created, consumed, policy_manager, game>>

\* run() in any other status raises before it touches anything.
RunRejected ==
    /\ CallerHasControl
    /\ calls < MaxCalls
    /\ RunIsRejected
    /\ calls' = calls + 1
    /\ last_call' = [op |-> "run", result |-> "RuntimeError"]
    /\ UNCHANGED <<engineVars, turn, pc, created, consumed>>
    /\ UNCHANGED <<replay, schedule, policy_manager, game>>

\* env.run returned: finalize, status COMPLETED, results returned.
RunCompletes ==
    /\ pc = "finish"
    /\ status' = "completed"
    /\ pc' = "idle"
    /\ metrics' = GetSummaryStatistics(metrics)
    /\ last_call' = [op |-> "run", result |-> "ok"]
    /\ UNCHANGED <<config, now, weeks_to_run, nodeVars, order_policy,
                   turn, calls, created, consumed>>
    /\ UNCHANGED <<replay, schedule, policy_manager, game>>

(***************************************************************************)
(* pause, resume, reset, set_order_policies.                               *)
(***************************************************************************)
\* Mutant: pause() also takes a simulation that was not started to PAUSED.
PausedStatus_FromReady(s) == IF s \in {"running", "ready"} THEN "paused" ELSE s

PausedStatus(s) == IF s = "running" THEN "paused" ELSE s

ResumedStatus(s) == IF s = "paused" THEN "running" ELSE s

Pause ==
    /\ CallerHasControl
    /\ calls < MaxCalls
    /\ calls' = calls + 1
    /\ status' = PausedStatus(status)
    /\ last_call' = [op |-> "pause", result |-> "ok"]
    /\ UNCHANGED <<config, now, weeks_to_run, nodeVars, order_policy, metrics,
                   turn, pc, created, consumed>>
    /\ UNCHANGED <<replay, schedule, policy_manager, game>>

Resume ==
    /\ CallerHasControl
    /\ calls < MaxCalls
    /\ calls' = calls + 1
    /\ status' = ResumedStatus(status)
    /\ last_call' = [op |-> "resume", result |-> "ok"]
    /\ UNCHANGED <<config, now, weeks_to_run, nodeVars, order_policy, metrics,
                   turn, pc, created, consumed>>
    /\ UNCHANGED <<replay, schedule, policy_manager, game>>

\* reset re-runs __init__ with the same configuration: a new SimPy
\* environment, new nodes and a new collector replace the old ones.  When it
\* is called from the callback of a run, that run goes on in the replaced
\* environment with the replaced nodes, out of sight: the monitor waits on a
\* timeout of the new environment and never calls back again, and a replaced
\* node whose policy raises still fails the run.
DetachedPc ==
    IF pc = "callback"
    THEN IF (\E n \in Nodes : order_policy[n].kind = "raise") /\ now + 1 < weeks_to_run
         THEN "detached_raise"
         ELSE "detached"
    ELSE pc

\* Mutant: the histories survive the reset.
Reset_KeepsHistory ==
    /\ CallerHasControl
    /\ calls < MaxCalls
    /\ calls' = calls + 1
    /\ status' = "ready"
    /\ now' = 0
    /\ weeks_to_run' = 0
    /\ inventory' = [n \in Nodes |-> config.initial_inventory]
    /\ backlog' = [n \in Nodes |-> config.initial_backlog]
    /\ pending_orders' = [n \in Nodes |-> <<>>]
    /\ incoming_shipments' = [n \in Nodes |-> <<>>]
    /\ outgoing_shipments' = [n \in Nodes |-> <<>>]
    /\ orders_placed' = [n \in Nodes |-> <<>>]
    /\ orders_received' = [n \in Nodes |-> <<>>]
    /\ history' = history
    /\ order_policy' = [n \in Nodes |-> DefaultPolicy]
    /\ customer_demands' = <<>>
    /\ production_queue' = <<>>
    /\ metrics' = EmptyMetrics
    /\ created' = <<>>
    /\ consumed' = <<>>
    /\ replay' = [ inputs |-> <<>>,
                   first |-> IF status = "completed"
                             THEN <<[inputs |-> replay.inputs, history |-> history]>>
                             ELSE replay.first ]
    /\ last_call' = [op |-> "reset", result |-> "ok"]
    /\ pc' = DetachedPc
    /\ UNCHANGED <<config, turn, schedule, policy_manager, game>>

Reset ==
    /\ CallerHasControl
    /\ calls < MaxCalls
    /\ calls' = calls + 1
    /\ status' = "ready"
    /\ now' = 0
    /\ weeks_to_run' = 0
    /\ inventory' = [n \in Nodes |-> config.initial_inventory]
    /\ backlog' = [n \in Nodes |-> config.initial_backlog]
    /\ pending_orders' = [n \in Nodes |-> <<>>]
    /\ incoming_shipments' = [n \in Nodes |-> <<>>]
    /\ outgoing_shipments' = [n \in Nodes |-> <<>>]
    /\ orders_placed' = [n \in Nodes |-> <<>>]
    /\ orders_received' = [n \in Nodes |-> <<>>]
    /\ history' = [n \in Nodes |-> <<>>]
    /\ order_policy' = [n \in Nodes |-> DefaultPolicy]
    /\ customer_demands' = <<>>
    /\ production_queue' = <<>>
    /\ metrics' = EmptyMetrics
    /\ created' = <<>>
    /\ consumed' = <<>>
    /\ replay' = [ inputs |-> <<>>,
                   first |-> IF status = "completed"
                             THEN <<[inputs |-> replay.inputs, history |-> history]>>
                             ELSE replay.first ]
    /\ last_call' = [op |-> "reset", result |-> "ok"]
    /\ pc' = DetachedPc
    /\ UNCHANGED <<config, turn, schedule, policy_manager, game>>

\* The callback in which reset() was called returns: the replaced
\* environment finishes the run, and run() finalizes the new collector and
\* sets the status, or fails with the exception of a replaced node's policy.
DetachedRunEnds ==
    /\ pc \in {"detached", "detached_raise"}
    /\ IF pc = "detached"
       THEN /\ status' = "completed"
            /\ metrics' = GetSummaryStatistics(metrics)
            /\ last_call' = [op |-> "run", result |-> "ok"]
       ELSE /\ status' = "error"
            /\ metrics' = metrics
            /\ last_call' = [op |-> "run", result |-> "RuntimeError"]
    /\ pc' = "idle"
    /\ UNCHANGED <<config, now, weeks_to_run, nodeVars, order_policy,
                   turn, calls, created, consumed, replay, schedule, policy_manager, game>>

\* Arguments of set_order_policies: a policy or None for each role.
Only(m, p) == [n \in Nodes |-> IF n = m THEN p ELSE NoPolicy]

PolicyArgs ==
    { [n \in Nodes |-> ConstPolicy(-1)],
      [n \in Nodes |-> ConstPolicy(5)],
      [n \in Nodes |-> ConstPolicy(2)],
      Only("Retailer", ConstPolicy(0)),
      Only("Wholesaler", ConstPolicy(-1)),
      Only("Factory", ConstPolicy(2)),
      Only("Distributor", RaisingPolicy) }

\* Mutant: every role's policy is assigned, also when none is supplied.
OverriddenPolicy_Always(old, arg) == arg

\* `if retailer_policy and self.retailer: self.retailer.order_policy = ...`
OverriddenPolicy(old, arg) == IF arg # NoPolicy THEN arg ELSE old

\* The caller overrides the policies at most once per construction.
SetOrderPolicies ==
    /\ CallerHasControl
    /\ order_policy = [n \in Nodes |-> DefaultPolicy]
    /\ \E args \in PolicyArgs :
           /\ order_policy' = [n \in Nodes |-> OverriddenPolicy(order_policy[n], args[n])]
           /\ replay' = [replay EXCEPT
                            !.inputs = Append(@, [op |-> "set_order_policies", weeks |-> 0,
                                                  args |-> <<args>>, week |-> now])]
    /\ last_call' = [op |-> "set_order_policies", result |-> "ok"]
    /\ UNCHANGED <<config, status, now, weeks_to_run, nodeVars, metrics,
                   turn, pc, calls, created, consumed, schedule, policy_manager, game>>

(***************************************************************************)
(* Spec: the engine, for every configuration, driven by a caller that      *)
(* constructs it, may override the policies and runs it.                   *)
(***************************************************************************)
Next ==
    \/ ProcessCustomerDemand
    \/ ReceiveShipments
    \/ CompleteProduction
    \/ ReceiveArrivedOrders
    \/ DecideOrder
    \/ RecordMetrics
    \/ MonitorProgress
    \/ CallbackReturns
    \/ Run
    \/ RunCompletes
    \/ SetOrderPolicies

Spec == Init /\ [][Next]_vars

(***************************************************************************)
(* SpecControl: one configuration, with a caller that also calls run() in  *)
(* other statuses, pause(), resume() and reset().                          *)
(***************************************************************************)
ControlConfig ==
    [ weeks |-> 3,
      initial_inventory |-> 3,
      initial_backlog |-> 0,
      holding_cost_per_unit |-> 1,
      backlog_cost_per_unit |-> 2,
      order_delay |-> 1,
      shipment_delay |-> 1,
      production_delay |-> 1,
      production_capacity |-> 3,
      demand |-> [type |-> "step", base_demand |-> 1, step_week |-> 1, step_demand |-> 5] ]

InitControl ==
    /\ Construct(ControlConfig)
    /\ turn = 0
    /\ pc = "idle"
    /\ calls = 0
    /\ last_call = [op |-> "none", result |-> "ok"]
    /\ created = <<>>
    /\ consumed = <<>>
    /\ replay = NoReplay
    /\ schedule = CreationOrder
    /\ policy_manager = NewPolicyManager(DefaultForecastHorizon)
    /\ game = GameController(DefaultMaxWeeks)

NextControl ==
    \/ Next
    \/ RunRejected
    \/ Pause
    \/ Resume
    \/ Reset
    \/ DetachedRunEnds

SpecControl == InitControl /\ [][NextControl]_vars

(***************************************************************************)
(* SpecLive: the control configuration under the scheduler's fairness.     *)
(* env.run keeps processing the scheduled events of the node processes and *)
(* of the monitor until the `until` event, and run() then finishes: a step *)
(* of the engine that is possible is eventually taken.  The caller is not  *)
(* obliged to do anything.                                                 *)
(***************************************************************************)
EngineStep ==
    \/ ProcessCustomerDemand
    \/ ReceiveShipments
    \/ CompleteProduction
    \/ ReceiveArrivedOrders
    \/ DecideOrder
    \/ RecordMetrics
    \/ MonitorProgress
    \/ CallbackReturns
    \/ RunCompletes

SpecLive == InitControl /\ [][Next]_vars /\ WF_vars(EngineStep)

(***************************************************************************)
(* SpecMetrics: runs long enough for the bullwhip ratio to be computed     *)
(* (total_weeks >= 10), over a few configurations with small demands.      *)
(***************************************************************************)
MetricsDemands ==
    { [type |-> "constant", base_demand |-> 2, step_week |-> 0, step_demand |-> 0],
      [type |-> "step", base_demand |-> 1, step_week |-> 2, step_demand |-> 2] }

MetricsConfig ==
    [ weeks : {MetricsWeeks},
      initial_inventory : {0, 3},
      initial_backlog : {0},
      holding_cost_per_unit : {1},
      backlog_cost_per_unit : {2},
      order_delay : {1, 2},
      shipment_delay : {1},
      production_delay : {1},
      production_capacity : CapacityValues,
      demand : MetricsDemands ]

InitMetrics ==
    /\ \E c \in MetricsConfig : Construct(c)
    /\ turn = 0
    /\ pc = "idle"
    /\ calls = 0
    /\ last_call = [op |-> "none", result |-> "ok"]
    /\ created = <<>>
    /\ consumed = <<>>
    /\ replay = NoReplay
    /\ schedule = CreationOrder
    /\ policy_manager = NewPolicyManager(DefaultForecastHorizon)
    /\ game = GameController(DefaultMaxWeeks)

SpecMetrics == InitMetrics /\ [][Next]_vars

(***************************************************************************)
(* SpecScenario: the two demonstration runs (constant demand, and a step   *)
(* in the demand), with the default policy at every node.  Costs are in    *)
(* units of 0.5.                                                           *)
(***************************************************************************)
ScenarioWeeks == 52

ScenarioA ==
    [ weeks |-> ScenarioWeeks,
      initial_inventory |-> 12,
      initial_backlog |-> 0,
      holding_cost_per_unit |-> 1,
      backlog_cost_per_unit |-> 2,
      order_delay |-> 2,
      shipment_delay |-> 2,
      production_delay |-> 2,
      production_capacity |-> 100,
      demand |-> [type |-> "constant", base_demand |-> 4, step_week |-> 0, step_demand |-> 0] ]

ScenarioB ==
    [ ScenarioA EXCEPT
        !.demand = [type |-> "step", base_demand |-> 4, step_week |-> 5, step_demand |-> 8] ]

InitScenario ==
    /\ \E c \in {ScenarioA, ScenarioB} : Construct(c)
    /\ turn = 0
    /\ pc = "idle"
    /\ calls = 0
    /\ last_call = [op |-> "none", result |-> "ok"]
    /\ created = <<>>
    /\ consumed = <<>>
    /\ replay = NoReplay
    /\ schedule = CreationOrder
    /\ policy_manager = NewPolicyManager(DefaultForecastHorizon)
    /\ game = GameController(DefaultMaxWeeks)

NextScenario ==
    \/ EngineStep
    \/ Run

SpecScenario == InitScenario /\ [][NextScenario]_vars

(***************************************************************************)
(* SpecPermuted: the node processes of a week resumed in any order.  The   *)
(* order of a week follows from the order in which the node processes were *)
(* created and scheduled; here every permutation is allowed, week by week, *)
(* with delays of at least one week and the default policies.              *)
(***************************************************************************)
Position(n) == CHOOSE i \in 1..Len(NodeSeq) : NodeSeq[i] = n

Inversions(o) ==
    Cardinality({ p \in (1..Len(NodeSeq)) \X (1..Len(NodeSeq)) :
                    p[1] < p[2] /\ Position(o[p[1]]) > Position(o[p[2]]) })

\* The even permutations of the creation order: twelve orders, the creation
\* order and its reverse among them, in which every two nodes occur in both
\* relative orders.
ProcessOrders ==
    { o \in [1..Len(NodeSeq) -> Nodes] :
          /\ \A n \in Nodes : \E i \in 1..Len(NodeSeq) : o[i] = n
          /\ Inversions(o) % 2 = 0 }

InitPermuted ==
    /\ Construct(ControlConfig)
    /\ turn = 0
    /\ pc = "idle"
    /\ calls = 0
    /\ last_call = [op |-> "none", result |-> "ok"]
    /\ created = <<>>
    /\ consumed = <<>>
    /\ replay = NoReplay
    /\ schedule = [allowed |-> ProcessOrders, order |-> NodeSeq]
    /\ policy_manager = NewPolicyManager(DefaultForecastHorizon)
    /\ game = GameController(DefaultMaxWeeks)

NextPermuted == EngineStep \/ Run \/ Reset \/ DetachedRunEnds

SpecPermuted == InitPermuted /\ [][NextPermuted]_vars

(***************************************************************************)
(* PolicyManager (game/policy_manager.py).  Dictionaries (node_context,    *)
(* custom_params) are records whose domain is the set of keys present, and *)
(* a callback is the quantity it returns.  Forecast demands are kept in    *)
(* units of 1/48 and holding costs in units of 1/2, so that np.mean over   *)
(* one to four observations, the trend over four weeks and the default     *)
(* holding cost 0.5 are exact integers; a cost total is kept in units of   *)
(* 1/96.                                                                   *)
(***************************************************************************)
ForecastUnit == 48

HoldingUnit == 2

DefaultHoldingCost == 1

EmptyDict == [k \in {} |-> 0]

RECURSIVE SumSeq(_)
SumSeq(s) == IF s = <<>> THEN 0 ELSE Head(s) + SumSeq(Tail(s))

LastN(s, k) == SubSeq(s, Len(s) - k + 1, Len(s))

\* Mutant: the backlog is added to the inventory position.
InventoryPosition_PlusBacklog(node_context) ==
    Get(node_context, "inventory", 0) + Get(node_context, "backlog", 0)
        + Get(node_context, "pending_orders", 0)

InventoryPosition(node_context) ==
    Get(node_context, "inventory", 0) - Get(node_context, "backlog", 0)
        + Get(node_context, "pending_orders", 0)

\* PolicyManager._base_stock_policy.
BaseStockPolicy(week, node_context, custom_params) ==
    LET target_level == Get(custom_params, "base_stock_level", DefaultBaseStockLevel)
    IN  Max(0, target_level - InventoryPosition(node_context))

\* PolicyManager._estimate_average_demand, in units of 1/48; _forecast_demand
\* uses it for fewer than four observations.
EstimateAverageDemand(h) ==
    IF h # <<>> THEN (ForecastUnit * SumSeq(h)) \div Len(h)
    ELSE ForecastUnit * DefaultAverageDemand

\* PolicyManager._forecast_demand, in units of 1/48: the mean of the last
\* four observations plus, from eight observations on, a quarter of its
\* difference to the mean of the four before for every week ahead.
ForecastDemand(h, horizon) ==
    IF Len(h) < 4
    THEN [i \in 1..horizon |-> EstimateAverageDemand(h)]
    ELSE LET recent == SumSeq(LastN(h, 4))
             older == IF Len(h) >= 8 THEN SumSeq(SubSeq(h, Len(h) - 7, Len(h) - 4)) ELSE recent
         IN  [i \in 1..horizon |-> Max(0, 12 * recent + 3 * (recent - older) * (i - 1))]

\* One iteration of the loop of _silver_meal_policy.  min_cost is the least
\* cost per period so far, as a total and its number of periods;
\* min_cost.periods = 0 stands for float('inf').
SilverMealStep(acc, forecast, periods, holding_cost, ordering_cost) ==
    LET demand == acc.cumulative_demand + forecast[periods]
        holding == acc.cumulative_holding_cost
                     + (IF periods > 1
                        THEN forecast[periods] * (periods - 1) * holding_cost
                        ELSE 0)
        total_cost == ForecastUnit * HoldingUnit * ordering_cost + holding
        less == \/ acc.min_cost.periods = 0
                \/ total_cost * acc.min_cost.periods < acc.min_cost.total * periods
    IN  [ cumulative_demand |-> demand,
          cumulative_holding_cost |-> holding,
          best_periods |-> IF less THEN periods ELSE acc.best_periods,
          min_cost |-> IF less THEN [total |-> total_cost, periods |-> periods]
                       ELSE acc.min_cost ]

RECURSIVE SilverMealLoop(_, _, _, _, _)
SilverMealLoop(acc, forecast, periods, holding_cost, ordering_cost) ==
    IF periods > Min(Len(forecast), SilverMealPeriods) THEN acc
    ELSE SilverMealLoop(SilverMealStep(acc, forecast, periods, holding_cost, ordering_cost),
                        forecast, periods + 1, holding_cost, ordering_cost)

\* int(order_quantity) of a non-negative quantity in units of 1/48.
ToInt(quantity) == quantity \div ForecastUnit

\* PolicyManager._silver_meal_policy.
SilverMealPolicy(week, node_context, custom_params) ==
    LET holding_cost == Get(custom_params, "holding_cost", DefaultHoldingCost)
        ordering_cost == Get(custom_params, "ordering_cost", DefaultOrderingCost)
        forecast == ForecastDemand(policy_manager.demand_history,
                                   policy_manager.forecast_horizon)
        start == [ cumulative_demand |-> 0, cumulative_holding_cost |-> 0,
                   best_periods |-> 1, min_cost |-> [total |-> 0, periods |-> 0] ]
    IN  IF forecast = <<>> THEN DefaultForecastless
        ELSE LET best_periods ==
                     SilverMealLoop(start, forecast, 1, holding_cost, ordering_cost).best_periods
             IN  ToInt(SumSeq(SubSeq(forecast, 1, best_periods)))

\* Mutant: without a decision the manual policy falls back to the default.
ManualPolicy_Fallback(week) == DefaultFallback

\* PolicyManager._manual_policy.
ManualPolicy(week) == 0

\* The policy types that _initialize_standard_policies registers and the
\* model covers.
PolicyFunctions == {"base_stock", "silver_meal"}

\* PolicyManager._execute_policy.
ExecutePolicy(policy_type, week, node_context, custom_params) ==
    CASE policy_type = "base_stock" -> BaseStockPolicy(week, node_context, custom_params)
      [] policy_type = "silver_meal" -> SilverMealPolicy(week, node_context, custom_params)
      [] OTHER -> DefaultFallback

\* The function create_policy returns.  A CUSTOM policy with a policy_name
\* is looked up in custom_policies when it is created; custom_params None
\* is the record NoParams.
NoParams == [none |-> TRUE]

OrEmpty(d) == IF d = NoParams THEN EmptyDict ELSE d

CreatedPolicy(policy_type, node_context, custom_params) ==
    IF policy_type = "manual"
    THEN [type |-> policy_type, kind |-> "manual"]
    ELSE IF policy_type = "custom" /\ "policy_name" \in DOMAIN custom_params
    THEN LET name == custom_params.policy_name IN
         IF name \in PolicyNames /\ policy_manager.custom_policies[name] # NoPolicy
         THEN [type |-> policy_type, kind |-> "callback", name |-> name,
               q |-> policy_manager.custom_policies[name].q]
         ELSE [type |-> policy_type, kind |-> "fallback", name |-> name,
               q |-> CustomFallback]
    ELSE [type |-> policy_type, kind |-> "policy_function",
          node_context |-> OrEmpty(node_context),
          custom_params |-> OrEmpty(custom_params)]

\* The callback registered now under the name a CUSTOM policy was created
\* for, NoPolicy if there is none or the policy has no name.
Registered(policy) ==
    IF "name" \in DOMAIN policy /\ policy.name \in PolicyNames
    THEN policy_manager.custom_policies[policy.name]
    ELSE NoPolicy

\* Mutant: a CUSTOM policy looks its name up when it is called.
PolicyCall_LateBinding(policy, week) ==
    IF "name" \in DOMAIN policy
    THEN IF Registered(policy) # NoPolicy THEN Registered(policy).q ELSE CustomFallback
    ELSE IF policy.kind = "manual" THEN 0
    ELSE ExecutePolicy(policy.type, week, policy.node_context, policy.custom_params)

\* A call of the function create_policy returned.
PolicyCall(policy, week) ==
    CASE policy.kind = "manual" -> ManualPolicy(week)
      [] policy.kind \in {"callback", "fallback"} -> policy.q
      [] OTHER -> ExecutePolicy(policy.type, week, policy.node_context, policy.custom_params)

\* The inputs of the policy manager.
MaxLevel == 1

Levels == -1..MaxLevel

MaxHistory == 8

DemandValues == {0, 6}

Weeks == {0, 1}

Optional(key, values) == {EmptyDict} \cup {[k \in {key} |-> v] : v \in values}

Merge(a, b) == [k \in DOMAIN a \cup DOMAIN b |-> IF k \in DOMAIN a THEN a[k] ELSE b[k]]

NodeContexts ==
    { Merge(i, Merge(b, p)) : i \in Optional("inventory", Levels),
                              b \in Optional("backlog", Levels),
                              p \in Optional("pending_orders", Levels) }

CustomParams(policy_type) ==
    CASE policy_type = "base_stock" ->
            {NoParams} \cup Optional("base_stock_level", Levels)
      [] policy_type = "silver_meal" ->
            { Merge(h, o) : h \in Optional("holding_cost", {4}),
                            o \in Optional("ordering_cost", {1}) }
      [] policy_type = "custom" ->
            {NoParams} \cup Optional("policy_name", PolicyNames \cup {"unknown"})
      [] OTHER -> {NoParams}

Contexts(policy_type) ==
    IF policy_type = "base_stock" THEN {NoParams} \cup NodeContexts ELSE {NoParams}

CallbackQuantities == {0, 7}

\* PolicyManager.create_policy.
CreatePolicy(types) ==
    /\ \E policy_type \in types :
       \E node_context \in Contexts(policy_type) :
       \E custom_params \in CustomParams(policy_type) :
           policy_manager' =
               [policy_manager EXCEPT
                   !.policy = CreatedPolicy(policy_type, node_context, custom_params),
                   !.returned = <<>>]
    /\ UNCHANGED <<engineSide, game>>

\* The caller calls the created policy for a week.
CallPolicy ==
    /\ policy_manager.policy # NoCreatedPolicy
    /\ \E week \in Weeks :
           policy_manager' =
               [policy_manager EXCEPT
                   !.returned = <<[week |-> week,
                                   demand_history |-> policy_manager.demand_history,
                                   registered |-> Registered(policy_manager.policy),
                                   quantity |-> PolicyCall(policy_manager.policy, week)]>>]
    /\ UNCHANGED <<engineSide, game>>

\* PolicyManager.register_custom_policy.
RegisterCustomPolicy ==
    /\ \E name \in PolicyNames, q \in CallbackQuantities :
           policy_manager' =
               [policy_manager EXCEPT !.custom_policies[name] = ConstPolicy(q)]
    /\ UNCHANGED <<engineSide, game>>

\* PolicyManager.update_demand_history.
UpdateDemandHistory ==
    /\ Len(policy_manager.demand_history) < MaxHistory
    /\ \E demand \in DemandValues :
           LET h == Append(policy_manager.demand_history, demand) IN
           policy_manager' =
               [policy_manager EXCEPT
                   !.demand_history = IF Len(h) > DemandHistoryLimit
                                      THEN LastN(h, DemandHistoryLimit)
                                      ELSE h]
    /\ UNCHANGED <<engineSide, game>>

(***************************************************************************)
(* SpecPolicy: a policy manager with the default parameters; the caller    *)
(* registers custom policies, creates manual, custom and base-stock        *)
(* policies and calls them.                                                *)
(***************************************************************************)
InitPolicy ==
    /\ Construct(ControlConfig)
    /\ turn = 0
    /\ pc = "idle"
    /\ calls = 0
    /\ last_call = [op |-> "none", result |-> "ok"]
    /\ created = <<>>
    /\ consumed = <<>>
    /\ replay = NoReplay
    /\ schedule = CreationOrder
    /\ policy_manager = NewPolicyManager(DefaultForecastHorizon)
    /\ game = GameController(DefaultMaxWeeks)

NextPolicy ==
    \/ RegisterCustomPolicy
    \/ CreatePolicy({"manual", "custom", "base_stock"})
    \/ CallPolicy

SpecPolicy == InitPolicy /\ [][NextPolicy]_vars

(***************************************************************************)
(* SpecSilverMeal: a policy manager with a forecast horizon of 0, 2, 4 or  *)
(* 8 weeks that observes demands and creates and calls Silver-Meal         *)
(* policies.                                                               *)
(***************************************************************************)
ForecastHorizons == {0, 2, DefaultForecastHorizon, 8}

InitSilverMeal ==
    /\ Construct(ControlConfig)
    /\ turn = 0
    /\ pc = "idle"
    /\ calls = 0
    /\ last_call = [op |-> "none", result |-> "ok"]
    /\ created = <<>>
    /\ consumed = <<>>
    /\ replay = NoReplay
    /\ schedule = CreationOrder
    /\ \E horizon \in ForecastHorizons : policy_manager = NewPolicyManager(horizon)
    /\ game = GameController(DefaultMaxWeeks)

NextSilverMeal ==
    \/ UpdateDemandHistory
    \/ CreatePolicy({"silver_meal"})
    \/ CallPolicy

SpecSilverMeal == InitSilverMeal /\ [][NextSilverMeal]_vars

(***************************************************************************)
(* GameController (game/controller.py).  The controller's simulation is    *)
(* the engine above: initialize_game constructs it, start_game runs it to  *)
(* the end, and every accepted decision advances it by one week            *)
(* (_advance_simulation).  Scores, the event log, the decision history and *)
(* timestamps are not kept.  The players submit decisions before the game  *)
(* is initialized or after it was started, from outside the callbacks.     *)
(***************************************************************************)
MaxGameWeeks == 3

MaxPlayers == 2

\* _request_human_decision: `return 4`.
HumanDecision == 4

\* SimulationConfig(weeks=self.rules.max_weeks): the dataclass defaults.
DefaultSimulationConfig(weeks) == [ScenarioA EXCEPT !.weeks = weeks]

\* A simulation_config given to the controller, with its own weeks.
GivenSimulationConfig == [ControlConfig EXCEPT !.weeks = 1]

\* `simulation_config or SimulationConfig(weeks=self.rules.max_weeks)`:
\* given tells whether the simulation_config argument is supplied.
SimulationConfigOf(max_weeks, given) ==
    IF given THEN GivenSimulationConfig ELSE DefaultSimulationConfig(max_weeks)

\* The players add_player is called with.
PlayerKinds ==
    { [role |-> "retailer", is_human |-> TRUE],
      [role |-> "wholesaler", is_human |-> TRUE],
      [role |-> "factory", is_human |-> FALSE] }

NewPlayer(kind) ==
    [role |-> kind.role, is_human |-> kind.is_human, decisions_made |-> 0]

\* The caller of the controller is in control: no call is in progress.
NoCallInProgress == pc = "idle"

AddPlayer ==
    /\ NoCallInProgress
    /\ Len(game.players) < MaxPlayers
    /\ \E kind \in PlayerKinds :
           game' = [game EXCEPT !.players = Append(@, NewPlayer(kind))]
    /\ last_call' = [op |-> "add_player", result |-> "ok"]
    /\ UNCHANGED <<engineVars, turn, pc, calls, created, consumed>>
    /\ UNCHANGED <<replay, schedule, policy_manager>>

\* _configure_node_policies: a human Retailer or Wholesaler is asked for
\* the decision (_request_human_decision); the other roles keep their
\* policy.
HasHuman(g, role) ==
    \E i \in DOMAIN g.players : g.players[i].role = role /\ g.players[i].is_human

ConfigureNodePolicies(g, policies) ==
    [ n \in Nodes |->
        IF \/ n = "Retailer" /\ HasHuman(g, "retailer")
           \/ n = "Wholesaler" /\ HasHuman(g, "wholesaler")
        THEN ConstPolicy(HumanDecision)
        ELSE policies[n] ]

\* initialize_game, from SETUP (any other status raises): the simulation is
\* constructed from the controller's configuration.
InitializeGame ==
    /\ NoCallInProgress
    /\ game.status = "setup"
    /\ game' = [game EXCEPT !.simulation = TRUE, !.status = "ready"]
    /\ order_policy' = ConfigureNodePolicies(game, order_policy)
    /\ last_call' = [op |-> "initialize_game", result |-> "ok"]
    /\ UNCHANGED <<config, status, now, weeks_to_run, nodeVars, metrics,
                   turn, pc, calls, created, consumed>>
    /\ UNCHANGED <<replay, schedule, policy_manager>>

\* start_game, from READY (any other status raises): with or without human
\* players the simulation's run() is called, which runs all the weeks of
\* the simulation's configuration.
StartGame ==
    /\ NoCallInProgress
    /\ game.status = "ready"
    /\ game' = [game EXCEPT !.status = "in_progress"]
    /\ weeks_to_run' = WeeksToRun(0)
    /\ status' = "running"
    /\ turn' = 1
    /\ Resume_Processes
    /\ last_call' = [op |-> "start_game", result |-> "pending"]
    /\ UNCHANGED <<config, now, nodeVars, order_policy, metrics,
                   calls, created, consumed, replay, policy_manager>>

\* end_game(reason).
EndGame(g, reason) ==
    IF g.status \in {"in_progress", "paused"}
    THEN [g EXCEPT !.status = IF reason = "completed" THEN "completed" ELSE "abandoned"]
    ELSE g

\* GameController.calculate_costs: the current costs of the nodes (the
\* cost_penalty_multiplier of the rules is left at 1.0).
CurrentCosts ==
    HoldingCost("Retailer") + BacklogCost("Retailer")
        + HoldingCost("Wholesaler") + BacklogCost("Wholesaler")
        + HoldingCost("Distributor") + BacklogCost("Distributor")
        + HoldingCost("Factory") + BacklogCost("Factory")

\* _on_simulation_week_complete(sim_state), sim_state holding the week and
\* the collector's summary m: the state is updated and the game ends once
\* check_win_conditions reports game_complete.
OnSimulationWeekComplete(g, week, m) ==
    LET updated == [g EXCEPT !.current_week = week,
                             !.total_cost = CurrentCosts,
                             !.service_level = m.fill_rate,
                             !.bullwhip_ratio = m.bullwhip_ratio]
    IN  IF updated.current_week >= updated.total_weeks
        THEN EndGame(updated, "completed")
        ELSE updated

\* What the controller's on_week_complete callback may call.
UserCalls == {"none", "pause_game", "resume_game", "end_game_abandoned"}

\* pause_game, resume_game and end_game("abandoned") on the game state.
UserCall(g, call) ==
    CASE call = "pause_game" /\ g.status = "in_progress" -> [g EXCEPT !.status = "paused"]
      [] call = "resume_game" /\ g.status = "paused" -> [g EXCEPT !.status = "in_progress"]
      [] call = "end_game_abandoned" -> EndGame(g, "abandoned")
      [] OTHER -> g

\* pause_game and resume_game pass the call on to the simulation.
SimulationStatusAfter(g, call, s) ==
    CASE call = "pause_game" /\ g.status = "in_progress" -> PausedStatus(s)
      [] call = "resume_game" /\ g.status = "paused" -> ResumedStatus(s)
      [] OTHER -> s

\* The simulation's on_week_complete callback is
\* _on_simulation_week_complete, which ends with the controller's own
\* on_week_complete callback; then the monitor waits for the next week.
WeekCompleteCallback ==
    /\ pc = "callback"
    /\ \E call \in UserCalls :
           LET g == OnSimulationWeekComplete(game, now, metrics) IN
           /\ game' = UserCall(g, call)
           /\ status' = SimulationStatusAfter(g, call, status)
    /\ NextWeek
    /\ UNCHANGED <<config, weeks_to_run, nodeVars, order_policy, metrics,
                   calls, last_call, created, consumed>>
    /\ UNCHANGED <<replay, policy_manager>>

\* The monitor process of run(weeks) is resumed in the weeks 0..weeks and
\* ends after its activation of week `weeks`.
MonitorWaits == now <= config.weeks

GameMonitorProgress == MonitorWaits /\ MonitorProgress

\* A week in which no monitor process is left: the clock moves on after the
\* last node process.
MonitorEnded ==
    /\ pc = "monitor"
    /\ ~MonitorWaits
    /\ NextWeek
    /\ UNCHANGED <<config, status, weeks_to_run, nodeVars, order_policy, metrics,
                   calls, last_call, created, consumed>>
    /\ UNCHANGED <<replay, policy_manager, game>>

\* _process_simulation_results(results), with the summary m of the results.
ProcessSimulationResults(g, m) ==
    [g EXCEPT !.total_cost = m.total_cost,
              !.service_level = m.fill_rate,
              !.bullwhip_ratio = m.bullwhip_ratio]

\* env.run returned in run(): the metrics are finalized, the simulation is
\* COMPLETED, _on_simulation_complete processes the results and ends the
\* game, and start_game processes the results once more.
StartGameReturns ==
    /\ pc = "finish"
    /\ last_call.op = "start_game"
    /\ status' = "completed"
    /\ pc' = "idle"
    /\ \E finalized \in {GetSummaryStatistics(metrics)} :
           /\ metrics' = finalized
           /\ game' = ProcessSimulationResults(
                          EndGame(ProcessSimulationResults(game, finalized), "completed"),
                          finalized)
    /\ last_call' = [op |-> "start_game", result |-> "ok"]
    /\ UNCHANGED <<config, now, weeks_to_run, nodeVars, order_policy,
                   turn, calls, created, consumed>>
    /\ UNCHANGED <<replay, schedule, policy_manager>>

\* _all_decisions_received returns True, and _advance_simulation acts
\* `if self.simulation and self.simulation.env`, whatever the game status.
MayAdvance(g) == g.simulation

\* `if next_time <= self.state.total_weeks`
WithinGameLimits(g, next_time) == next_time <= g.total_weeks

\* submit_player_decision(player_id, decision): False for an unknown
\* player; otherwise the decision is counted and _advance_simulation either
\* starts env.run(until=now + 1) or ends the game.
SubmitPlayerDecision ==
    /\ NoCallInProgress
    /\ game.status # "ready"
    /\ calls < MaxCalls
    /\ calls' = calls + 1
    /\ \E player_id \in 1..MaxPlayers :
           IF player_id \notin DOMAIN game.players
           THEN /\ last_call' = [op |-> "submit_player_decision", result |-> "False"]
                /\ UNCHANGED <<game, weeks_to_run, turn, pc, schedule>>
           ELSE LET g == [game EXCEPT !.players[player_id].decisions_made = @ + 1] IN
                IF MayAdvance(g) /\ WithinGameLimits(g, now + 1)
                THEN /\ game' = g
                     /\ weeks_to_run' = now + 1
                     /\ turn' = 1
                     /\ Resume_Processes
                     /\ last_call' = [op |-> "submit_player_decision",
                                      result |-> "pending"]
                ELSE /\ game' = IF MayAdvance(g) THEN EndGame(g, "completed") ELSE g
                     /\ last_call' = [op |-> "submit_player_decision", result |-> "True"]
                     /\ UNCHANGED <<weeks_to_run, turn, pc, schedule>>
    /\ UNCHANGED <<config, status, now, nodeVars, order_policy, metrics,
                   created, consumed, replay, policy_manager>>

\* env.run(until=next_time) returned in _advance_simulation: the current
\* week is the clock, and _on_simulation_week_complete is called with
\* get_current_state(), which asks the collector for its summary.
AdvanceReturns ==
    /\ pc = "finish"
    /\ last_call.op = "submit_player_decision"
    /\ pc' = "idle"
    /\ \E summary \in {GetSummaryStatistics(metrics)} :
           /\ metrics' = summary
           /\ \E call \in UserCalls :
                  LET g == OnSimulationWeekComplete(game, now, summary) IN
                  /\ game' = UserCall(g, call)
                  /\ status' = SimulationStatusAfter(g, call, status)
    /\ last_call' = [op |-> "submit_player_decision", result |-> "True"]
    /\ UNCHANGED <<config, now, weeks_to_run, nodeVars, order_policy,
                   turn, calls, created, consumed>>
    /\ UNCHANGED <<replay, schedule, policy_manager>>

GameWeeks == 1..MaxGameWeeks

InitGame ==
    /\ \E max_weeks \in GameWeeks :
           /\ \E given \in BOOLEAN :
                  Construct(SimulationConfigOf(max_weeks, given))
           /\ game = GameController(max_weeks)
    /\ turn = 0
    /\ pc = "idle"
    /\ calls = 0
    /\ last_call = [op |-> "none", result |-> "ok"]
    /\ created = <<>>
    /\ consumed = <<>>
    /\ replay = NoReplay
    /\ schedule = CreationOrder
    /\ policy_manager = NewPolicyManager(DefaultForecastHorizon)

NextGame ==
    \/ AddPlayer
    \/ InitializeGame
    \/ StartGame
    \/ ProcessCustomerDemand
    \/ ReceiveShipments
    \/ CompleteProduction
    \/ ReceiveArrivedOrders
    \/ DecideOrder
    \/ RecordMetrics
    \/ GameMonitorProgress
    \/ MonitorEnded
    \/ WeekCompleteCallback
    \/ StartGameReturns
    \/ SubmitPlayerDecision
    \/ AdvanceReturns

SpecGame == InitGame /\ [][NextGame]_vars

(***************************************************************************)
(* Properties.                                                             *)
(***************************************************************************)
\* Node n has recorded week w (it finished its iteration of that week).
Recorded(n, w) == Len(history[n]) > w

Indices(s) == 1..Len(s)

CreatedOf(kind) == {i \in Indices(created) : created[i].kind = kind}

\* The arrivals logged for a created order or shipment (one is created per
\* node and week).
ArrivalsOf(c) ==
    {j \in Indices(consumed) : /\ consumed[j].kind = c.kind
                               /\ consumed[j].from_node = c.from_node
                               /\ consumed[j].created = c.created}

\* The completions logged for the production job created with due week d.
CompletionsOf(d) ==
    {j \in Indices(consumed) : consumed[j].kind = "job" /\ consumed[j].due = d}

Queued(q, P(_)) == {k \in Indices(q) : P(q[k])}

\* C1: with non-negative initial inventory, initial backlog and customer
\* demand, every node has inventory >= 0 and backlog >= 0 in every state,
\* after every step of every tick.
C1_NonNegative ==
    \A n \in Nodes : inventory[n] >= 0 /\ backlog[n] >= 0

\* A node that has shipped everything it had and still owes units.
C1_Witness ==
    \E n \in Nodes : /\ inventory[n] = 0
                     /\ backlog[n] > 0
                     /\ outgoing_shipments[n] # <<>>
                     /\ now >= 2

\* C2: a step that fulfils one order of quantity q at a node with inventory I
\* and backlog B ships min(q + B, I), leaves inventory I - shipped and
\* backlog max(0, q + B - shipped), and creates a Shipment (of that quantity)
\* only when shipped > 0.
C2_Fulfilment ==
    [][\A n \in Nodes :
          Len(orders_received'[n]) = Len(orders_received[n]) + 1 =>
              LET q == Last(orders_received'[n]).quantity
                  shipped == IF q + backlog[n] < inventory[n]
                             THEN q + backlog[n] ELSE inventory[n]
                  owed == q + backlog[n] - shipped
              IN  /\ inventory'[n] = inventory[n] - shipped
                  /\ backlog'[n] = IF owed > 0 THEN owed ELSE 0
                  /\ shipped <= q + backlog[n] /\ shipped <= inventory[n]
                  /\ IF shipped > 0
                     THEN /\ Len(outgoing_shipments'[n]) = Len(outgoing_shipments[n]) + 1
                          /\ Last(outgoing_shipments'[n]).quantity = shipped
                     ELSE outgoing_shipments'[n] = outgoing_shipments[n]]_vars

\* A node that fulfilled an order only in part, and one order without shipping.
C2_Witness ==
    \E n \in Nodes : /\ outgoing_shipments[n] # <<>>
                     /\ Len(orders_received[n]) > Len(outgoing_shipments[n])
                     /\ backlog[n] > 0

\* C3: units are conserved: the inventories plus the shipments in transit
\* between nodes equal the initial inventories plus the completed production
\* minus what the Retailer shipped to the customer.
TotalInventory ==
    inventory["Retailer"] + inventory["Wholesaler"]
        + inventory["Distributor"] + inventory["Factory"]

InTransit ==
    SumQuantity(incoming_shipments["Retailer"])
        + SumQuantity(incoming_shipments["Wholesaler"])
        + SumQuantity(incoming_shipments["Distributor"])
        + SumQuantity(incoming_shipments["Factory"])

Produced == SumQuantity(SelectSeq(consumed, LAMBDA e : e.kind = "job"))

ShippedToCustomer == SumQuantity(outgoing_shipments["Retailer"])

C3_Conservation ==
    TotalInventory + InTransit
        = 4 * config.initial_inventory + Produced - ShippedToCustomer

\* Production was completed, the customer was served, a shipment is in
\* transit and one has been received.
C3_Witness ==
    /\ Produced > 0
    /\ ShippedToCustomer > 0
    /\ InTransit > 0
    /\ \E j \in Indices(consumed) : consumed[j].kind = "shipment"

\* C4: with orderDelay >= 1, an order placed at week T is received by the
\* upstream node at week T + orderDelay and at no other week, at most once,
\* and once the upstream node has recorded week T + orderDelay it has been
\* received exactly once and is no longer among its pending orders.
C4_OrderDelay ==
    config.order_delay >= 1 =>
        \A i \in CreatedOf("order") :
            LET c == created[i]
                up == Upstream(c.from_node)
                arrival == c.created + config.order_delay
            IN  /\ \A j \in ArrivalsOf(c) : /\ consumed[j].week = arrival
                                            /\ consumed[j].node = up
                /\ Cardinality(ArrivalsOf(c)) <= 1
                /\ ArrivalsOf(c) # {} =>
                       Queued(pending_orders[up],
                              LAMBDA o : o.from_node = c.from_node
                                         /\ o.week_placed = c.created) = {}
                /\ Recorded(up, arrival) => Cardinality(ArrivalsOf(c)) = 1

\* An order was received with an order delay of 2.
C4_Witness ==
    /\ config.order_delay = 2
    /\ \E j \in Indices(consumed) : consumed[j].kind = "order"

\* C5: with shipmentDelay >= 1, every shipment created at week T by any
\* node, the Factory included, is due at T + config.shipment_delay, is
\* received at that week only, and has been received exactly once when the
\* recipient has recorded that week.
C5_ShipmentDelay ==
    config.shipment_delay >= 1 =>
        \A i \in CreatedOf("shipment") :
            LET c == created[i]
                down == Downstream(c.from_node)
                arrival == c.created + config.shipment_delay
            IN  /\ c.due = arrival
                /\ \A j \in ArrivalsOf(c) : /\ consumed[j].week = arrival
                                            /\ consumed[j].node = down
                /\ Cardinality(ArrivalsOf(c)) <= 1
                /\ Recorded(down, arrival) => Cardinality(ArrivalsOf(c)) = 1

\* C6: for all delays >= 0, every order, shipment and production job is
\* consumed at a week after the week it was created in, at most once, and is
\* consumed once its recipient has recorded a week after its creation week
\* in which it was due.
C6_ArrivalAfterCreation ==
    /\ \A j \in Indices(consumed) :
           consumed[j].kind \in {"order", "shipment"} => consumed[j].week > consumed[j].created
    /\ \A i \in Indices(created) :
           LET c == created[i]
               recipient == CASE c.kind = "order" -> Upstream(c.from_node)
                              [] c.kind = "shipment" -> Downstream(c.from_node)
                              [] OTHER -> "Factory"
               arrivals == IF c.kind = "job" THEN CompletionsOf(c.due) ELSE ArrivalsOf(c)
           IN  /\ Cardinality(arrivals) <= 1
               /\ \A j \in arrivals : consumed[j].week > c.created
               /\ Recorded(recipient, Max(c.due, c.created + 1)) => arrivals # {}

\* C7: within a week every node follows the step order of its run() loop:
\* the Retailer serves the customer demand first, from the inventory held
\* before the week's arrivals; then the arrived shipments (Factory:
\* completed jobs) are added; then the arrived orders are fulfilled; then
\* the policy decides and the order or job is enqueued; the history record
\* comes last and holds the inventory and backlog after all of these.
DecidedThisWeek(n) ==
    {i \in Indices(created) : /\ created[i].kind \in {"order", "job"}
                              /\ created[i].from_node = n
                              /\ created[i].created = now}

C7_StepOrder ==
    /\ Running = "Retailer" =>
           /\ pc \in {"demand", "shipments", "policy", "record"}
           /\ Len(customer_demands) = (IF pc = "demand" THEN now ELSE now + 1)
           /\ Len(orders_received["Retailer"]) = Len(customer_demands)
    /\ Running \in {"Wholesaler", "Distributor"} =>
           pc \in {"shipments", "orders", "policy", "record"}
    /\ Running = "Factory" => pc \in {"production", "orders", "policy", "record"}
    /\ \A n \in Nodes : Running = n =>
           /\ Len(history[n]) = now
           /\ pc \in {"orders", "policy", "record"} => ArrivedShipments(n, now) = <<>>
           /\ pc \in {"orders", "policy"} /\ n = "Factory" =>
                  CompletedProduction(now) = <<>>
           /\ pc \in {"policy", "record"} => ArrivedOrders(n, now) = <<>>
           /\ pc \in {"orders"} /\ config.order_delay >= 1 =>
                  \A j \in Indices(consumed) :
                      ~(consumed[j].kind = "order" /\ consumed[j].node = n
                        /\ consumed[j].week = now)
           /\ pc \in {"demand", "shipments", "production", "orders", "policy"} =>
                  DecidedThisWeek(n) = {}
    /\ \A n \in Nodes : Len(history[n]) = now + 1 =>
           /\ Last(history[n]).week = now
           /\ Last(history[n]).inventory = inventory[n]
           /\ Last(history[n]).backlog = backlog[n]

\* The Retailer has served this week's demand while a shipment that arrives
\* this week is still waiting to be added to its inventory.
C7_Witness ==
    /\ Running = "Retailer"
    /\ pc = "shipments"
    /\ ArrivedShipments("Retailer", now) # <<>>
    /\ Len(customer_demands) = now + 1

\* C8: when the Factory's policy returns q > 0 at week T, exactly one job of
\* quantity min(q, productionCapacity) due at T + productionDelay is
\* enqueued; with productionDelay >= 1 the job is completed at week
\* T + productionDelay only, exactly once by the time the Factory has
\* recorded that week, and is then no longer queued; the Factory never
\* places an Order.
CappedQuantity(q) ==
    IF q < config.production_capacity THEN q ELSE config.production_capacity

C8_Production ==
    /\ (pc = "record" /\ Running = "Factory" /\ GetOrderQuantity("Factory", now) > 0) =>
           /\ production_queue # <<>>
           /\ Last(production_queue)
                  = [ quantity |-> CappedQuantity(GetOrderQuantity("Factory", now)),
                      complete_week |-> now + config.production_delay ]
           /\ Cardinality(Queued(production_queue,
                                 LAMBDA p : p.complete_week
                                                = now + config.production_delay)) = 1
           /\ Cardinality(DecidedThisWeek("Factory")) = 1
    /\ config.production_delay >= 1 =>
           \A i \in CreatedOf("job") :
               LET c == created[i] IN
               /\ c.due = c.created + config.production_delay
               /\ \A j \in CompletionsOf(c.due) : /\ consumed[j].week = c.due
                                                  /\ consumed[j].quantity = c.quantity
               /\ Cardinality(CompletionsOf(c.due)) <= 1
               /\ Recorded("Factory", c.due) =>
                      /\ Cardinality(CompletionsOf(c.due)) = 1
                      /\ Queued(production_queue, LAMBDA p : p.complete_week = c.due) = {}
    /\ orders_placed["Factory"] = <<>>
    /\ \A n \in Nodes :
           Queued(pending_orders[n], LAMBDA o : o.from_node = "Factory") = {}

\* A job capped at the capacity was completed.
C8_Witness ==
    /\ order_policy["Factory"] = ConstPolicy(5)
    /\ config.production_delay >= 1
    /\ \E j \in Indices(consumed) :
           /\ consumed[j].kind = "job"
           /\ consumed[j].quantity = config.production_capacity
           /\ consumed[j].quantity < 5

\* C9: a policy that returns a negative quantity does not fail the run: no
\* order and no job with a negative quantity is ever queued, the ordering
\* step changes neither inventory nor backlog nor any queue, the week is
\* recorded with orders_placed = 0, and the run goes on.
NegativeDecision ==
    /\ Running \in Nodes
    /\ order_policy[Running].kind # "raise"
    /\ GetOrderQuantity(Running, now) < 0

C9_NegativeClamped ==
    /\ [](/\ \A n \in Nodes : \A k \in Indices(pending_orders[n]) :
                 pending_orders[n][k].quantity >= 0
          /\ \A k \in Indices(production_queue) : production_queue[k].quantity >= 0)
    /\ [][/\ (pc = "policy" /\ NegativeDecision) =>
                 /\ pc' = "record"
                 /\ status' = status
                 /\ UNCHANGED <<inventory, backlog, pending_orders, incoming_shipments,
                                orders_placed, production_queue, history>>
          /\ (pc = "record" /\ NegativeDecision) =>
                 /\ Len(history'[Running]) = now + 1
                 /\ Last(history'[Running]).orders_placed = 0
                 /\ status' = status
                 /\ pc' # "idle"]_vars

\* A node whose policy returns -1 has recorded two weeks.
C9_Witness ==
    \E n \in Nodes : /\ order_policy[n] = ConstPolicy(-1)
                     /\ Len(history[n]) >= 2
                     /\ status = "running"

\* C10: run() called in a status other than READY fails and leaves the
\* status, the clock, the nodes and the metrics unchanged.
\* A step in which the caller calls run(): the run starts or is refused.
RunInvoked ==
    /\ last_call'.op = "run"
    /\ \/ last_call'.result = "pending" /\ last_call.result # "pending"
       \/ calls' = calls + 1

C10_RunNotReady ==
    [][(RunInvoked /\ status # "ready") =>
           /\ last_call'.result = "RuntimeError"
           /\ UNCHANGED engineVars]_vars

\* run() was refused while the status was PAUSED, after a week with history.
C10_Witness ==
    /\ last_call = [op |-> "run", result |-> "RuntimeError"]
    /\ status = "paused"
    /\ pc = "callback"
    /\ history["Factory"] # <<>>

\* C11: run() from READY with W >= 1 weeks and policies that do not raise
\* terminates: the status goes ready -> running -> completed, every node
\* records exactly the weeks 0..W-1, once each and in increasing order, and
\* no node processes a week >= W.
NoPolicyRaises == \A n \in Nodes : order_policy[n].kind # "raise"

WeeksInOrder ==
    \A n \in Nodes : \A k \in Indices(history[n]) : history[n][k].week = k - 1

C11_RunTerminates ==
    /\ [](WeeksInOrder)
    /\ [](status # "ready" => \A n \in Nodes : Len(history[n]) <= weeks_to_run)
    /\ [](status = "completed" =>
            /\ weeks_to_run >= 1
            /\ now = weeks_to_run
            /\ \A n \in Nodes : Len(history[n]) = weeks_to_run)
    /\ [][ /\ status = "ready" => status' \in {"ready", "running"}
           /\ (status = "running" /\ NoPolicyRaises) => status' \in {"running", "completed"}
           /\ status = "completed" => status' = "completed" ]_vars
    /\ (status = "running") ~> (status = "completed" \/ ~NoPolicyRaises)

C11_Witness ==
    /\ status = "completed"
    /\ NoPolicyRaises
    /\ weeks_to_run = 3
    /\ \A n \in Nodes : Len(history[n]) = 3 /\ history[n][3].week = 2

\* C12: when a node's policy raises in week T of a run, the run is aborted:
\* run() raises to the caller, the status becomes error and never completed
\* afterwards, and the history of every node keeps, unchanged, its records of
\* all weeks before T.
PolicyRaisesNow ==
    pc = "policy" /\ Running \in Nodes /\ order_policy[Running].kind = "raise"

C13_PausedStops ==
    [][ status = "paused" =>
          /\ now' = now
          /\ history' = history
          /\ nodeVars' = nodeVars
          /\ status' # "completed" ]_vars

\* C14: pause() changes the status only from running, to paused, and
\* resume() only from paused, to running; in every other status they are
\* no-ops, and neither changes the clock, a node's inventory, backlog,
\* queues or history, the policies or the metrics.
PauseCalled == last_call'.op = "pause" /\ calls' = calls + 1

ResumeCalled == last_call'.op = "resume" /\ calls' = calls + 1

C14_PauseResumeFrame ==
    [][ /\ PauseCalled =>
              /\ status' = (IF status = "running" THEN "paused" ELSE status)
              /\ <<config, now, weeks_to_run, nodeVars, order_policy, metrics>>' =
                     <<config, now, weeks_to_run, nodeVars, order_policy, metrics>>
        /\ ResumeCalled =>
              /\ status' = (IF status = "paused" THEN "running" ELSE status)
              /\ <<config, now, weeks_to_run, nodeVars, order_policy, metrics>>' =
                     <<config, now, weeks_to_run, nodeVars, order_policy, metrics>> ]_vars

C14_Witness ==
    /\ last_call.op = "resume"
    /\ calls = 2
    /\ status = "running"
    /\ pc = "callback"
    /\ now >= 1

\* The quantity the Retailer ordered and the quantity the Factory decided to
\* produce in each recorded week, as series of records with the field q.
RetailerOrderSeries ==
    [ k \in Indices(history["Retailer"]) |->
        [q |-> SumQuantity(SelectSeq(orders_placed["Retailer"],
                                     LAMBDA o : o.week_placed = k - 1))] ]

FactoryJobsOf(w) ==
    SelectSeq(created, LAMBDA e : e.kind = "job" /\ e.created = w)

FactoryDecisionSeries ==
    [ k \in Indices(history["Factory"]) |-> [q |-> SumQuantity(FactoryJobsOf(k - 1))] ]

\* C15: after a run with total_weeks >= 10 in which the Retailer's weekly
\* order quantities vary, the bullwhip ratio times the variance of the
\* Retailer's weekly orders equals the variance of the Factory's weekly
\* production decisions.
C15_BullwhipRatio ==
    ( /\ status = "completed"
      /\ metrics.total_weeks >= BullwhipMinWeeks
      /\ VarianceN(RetailerOrderSeries, "q") > 0 )
    => /\ metrics.bullwhip_ratio.den # 0
       /\ metrics.bullwhip_ratio.num * VarianceN(RetailerOrderSeries, "q")
            = VarianceN(FactoryDecisionSeries, "q") * metrics.bullwhip_ratio.den

\* C16: the bullwhip ratio is 0 whenever total_weeks < 10 and whenever the
\* variance of the Retailer's recorded order quantities is 0; it is never
\* negative and never a division by zero.
C16_BullwhipZero ==
    /\ metrics.bullwhip_ratio.den > 0
    /\ metrics.bullwhip_ratio.num >= 0
    /\ metrics.total_weeks < BullwhipMinWeeks => metrics.bullwhip_ratio.num = 0
    /\ VarianceN(metrics.node_histories["Retailer"], "orders_placed") = 0
          => metrics.bullwhip_ratio.num = 0

C16_Witness ==
    /\ status = "completed"
    /\ metrics.total_weeks >= BullwhipMinWeeks
    /\ Len(metrics.node_histories["Retailer"]) > BullwhipMinWeeks
    /\ VarianceN(metrics.node_histories["Retailer"], "orders_placed") = 0
    /\ metrics.node_histories["Retailer"][1].orders_placed > 0
    /\ metrics.bullwhip_ratio = Zero

\* C17: after every weekly metrics collection and in the final summary, the
\* collector's total_cost, total_holding_cost and total_backlog_cost each
\* equal the sum over the four nodes and over all weeks recorded so far of
\* the corresponding weekly cost of the nodes' histories, and
\* total_cost = total_holding_cost + total_backlog_cost.
C17_CostTotals ==
    (pc = "callback" \/ status = "completed") =>
        /\ metrics.total_cost = SumOverNodes(NodeSeq, "total_cost")
        /\ metrics.total_holding_cost = SumOverNodes(NodeSeq, "holding_cost")
        /\ metrics.total_backlog_cost = SumOverNodes(NodeSeq, "backlog_cost")
        /\ metrics.total_cost = metrics.total_holding_cost + metrics.total_backlog_cost

\* C18: the costs a node records for a week are period costs of its state
\* at the end of that week: holding_cost = inventory * holding cost per unit,
\* backlog_cost = backlog * backlog cost per unit and total_cost is their
\* sum, with the inventory and backlog recorded for the same week; no cost
\* of an earlier week is included.
PeriodCosts(r) ==
    /\ r.holding_cost = r.inventory * config.holding_cost_per_unit
    /\ r.backlog_cost = r.backlog * config.backlog_cost_per_unit
    /\ r.total_cost = r.holding_cost + r.backlog_cost

C18_PeriodCosts ==
    /\ [](\A n \in Nodes : \A k \in Indices(history[n]) : PeriodCosts(history[n][k]))
    /\ [][ (pc = "record" /\ Running \in Nodes) =>
              /\ Len(history'[Running]) = Len(history[Running]) + 1
              /\ Last(history'[Running]).week = now
              /\ Last(history'[Running]).inventory = inventory[Running]
              /\ Last(history'[Running]).backlog = backlog[Running]
              /\ SubSeq(history'[Running], 1, Len(history[Running])) = history[Running] ]_vars

C18_Witness ==
    \E n \in Nodes :
        /\ Len(history[n]) >= 2
        /\ history[n][1].total_cost > 0
        /\ history[n][2].holding_cost > 0
        /\ history[n][2].backlog_cost > 0
        /\ history[n][2].total_cost # history[n][1].total_cost

\* C19: for every node the reported fill rate is
\* 1 - (sum of the recorded weekly backlog) / (total demand the node received
\* during the run: customer demand for the Retailer, downstream orders
\* received for the other nodes), and 1 for a node that received no demand;
\* the overall fill rate is the mean of the four values.
DemandReceived(n) == SumQuantity(orders_received[n])

C19_FillRate ==
    ( /\ status = "completed"
      /\ \A n \in Nodes : metrics.node_histories[n] # <<>> )
    => LET service_levels == CalculateServiceLevels(metrics)
           total == SumFillRates(service_levels, NodeSeq)
       IN  /\ \A n \in Nodes :
                  LET total_backlog == SumField(history[n], "backlog") IN
                  /\ DemandReceived(n) = 0 =>
                         service_levels[n].num = service_levels[n].den
                  /\ DemandReceived(n) > 0 =>
                         service_levels[n].num * DemandReceived(n)
                           = (DemandReceived(n) - total_backlog) * service_levels[n].den
           /\ metrics.fill_rate = Fraction(total.num, total.den * Cardinality(Nodes))

\* C20: for a non-random demand pattern and fixed policies, two
\* independently constructed simulations with the same configuration, given
\* the same policies and the same number of weeks and run to completion,
\* have identical histories for every node, week by week and field by field.
SameInputsAsFirst ==
    /\ replay.first # <<>>
    /\ replay.first[1].inputs = replay.inputs

ResetCalled == last_call'.op = "reset" /\ calls' = calls + 1

FreshConstruction ==
    /\ status = "ready"
    /\ now = 0
    /\ inventory = [n \in Nodes |-> config.initial_inventory]
    /\ backlog = [n \in Nodes |-> config.initial_backlog]
    /\ pending_orders = [n \in Nodes |-> <<>>]
    /\ incoming_shipments = [n \in Nodes |-> <<>>]
    /\ outgoing_shipments = [n \in Nodes |-> <<>>]
    /\ orders_placed = [n \in Nodes |-> <<>>]
    /\ orders_received = [n \in Nodes |-> <<>>]
    /\ history = [n \in Nodes |-> <<>>]
    /\ order_policy = [n \in Nodes |-> DefaultPolicy]
    /\ customer_demands = <<>>
    /\ production_queue = <<>>
    /\ metrics.total_weeks = 0
    /\ metrics.total_cost = 0
    /\ metrics.total_holding_cost = 0
    /\ metrics.total_backlog_cost = 0
    /\ metrics.node_histories = [n \in Nodes |-> <<>>]

RampUp(c) == 3 * (c.order_delay + c.shipment_delay) + c.production_delay

C22_ScenarioA ==
    config = ScenarioA =>
        /\ \A n \in Nodes : \A k \in Indices(history[n]) :
               history[n][k].week >= RampUp(config) => history[n][k].backlog = 0
        /\ metrics.bullwhip_ratio.num >= 0 /\ metrics.bullwhip_ratio.den > 0

\* C23: in scenario B (demand 4 until week 5, then 8, all delays 2, initial
\* inventory 12, default policies) the Factory records a backlog > 0 in some
\* week of 5..15 and backlog 0 in every week after week 15.
RoundTrip(c) ==
    c.demand.step_week + 2 * (c.order_delay + c.shipment_delay) + c.production_delay

C23_ScenarioB ==
    (config = ScenarioB /\ status = "completed" /\ weeks_to_run > RoundTrip(config)) =>
        /\ \E k \in Indices(history["Factory"]) :
               /\ history["Factory"][k].week >= config.demand.step_week
               /\ history["Factory"][k].week <= RoundTrip(config)
               /\ history["Factory"][k].backlog > 0
        /\ \A k \in Indices(history["Factory"]) :
               history["Factory"][k].week > RoundTrip(config)
                   => history["Factory"][k].backlog = 0

\* C24: with order, shipment and production delays of at least one week and
\* policies that read only their own node's state, the order in which the
\* four nodes are processed within a week does not matter: no order or
\* shipment is read in the week in which it was created, and two runs of the
\* same number of weeks that process the nodes in different orders have the
\* same histories for every node and every week.
C24_AnyPermutation ==
    /\ \A j \in Indices(consumed) :
           consumed[j].kind \in {"order", "shipment"}
               => consumed[j].created < consumed[j].week
    /\ (status = "completed" /\ replay.first # <<>>
            /\ replay.first[1].inputs = replay.inputs)
           => history = replay.first[1].history

C24_Witness ==
    /\ status = "completed"
    /\ replay.first # <<>>
    /\ replay.first[1].inputs = replay.inputs
    /\ schedule.order # NodeSeq
    /\ \A n \in Nodes : Len(history[n]) = 3
    /\ \E j \in Indices(consumed) : consumed[j].kind = "shipment"
    /\ history = replay.first[1].history

\* C25: whenever the metrics collector collects for week t, and whenever
\* the week-complete callback observes the state, all four nodes have
\* completed and recorded their week t: every node's history has exactly
\* t+1 entries, the last one for week t, and the collector's copy of the
\* histories is that of the four nodes.
Collecting == pc = "monitor" /\ now > 0

SetOrderPoliciesCalled ==
    /\ Len(replay'.inputs) = Len(replay.inputs) + 1
    /\ Last(replay'.inputs).op = "set_order_policies"

OverriddenDecides ==
    pc = "policy" /\ Running \in Nodes /\ order_policy[Running].kind = "const"

C26_SetPoliciesFrame ==
    [][ /\ SetOrderPoliciesCalled =>
              LET args == Last(replay'.inputs).args[1] IN
              /\ \A n \in Nodes :
                     order_policy'[n] = IF args[n] = NoPolicy THEN order_policy[n] ELSE args[n]
              /\ <<config, status, now, weeks_to_run, nodeVars, metrics>>' =
                     <<config, status, now, weeks_to_run, nodeVars, metrics>>
              /\ last_call'.result = "ok"
        /\ OverriddenDecides =>
              LET n == Running
                  q == order_policy[n].q
              IN  IF q <= 0
                  THEN <<orders_placed, production_queue>>' = <<orders_placed, production_queue>>
                  ELSE IF n = "Factory"
                  THEN Last(production_queue').quantity = Min(q, config.production_capacity)
                  ELSE /\ Last(orders_placed'[n]).quantity = q
                       /\ Last(orders_placed'[n]).week_placed = now ]_vars

C26_Witness ==
    /\ Len(replay.inputs) = 2
    /\ replay.inputs[2].op = "set_order_policies"
    /\ replay.inputs[2].week = 1
    /\ order_policy["Retailer"] = DefaultPolicy
    /\ order_policy["Factory"] = ConstPolicy(2)
    /\ now = 2
    /\ production_queue # <<>>
    /\ Last(production_queue).quantity = 2
    /\ pc = "callback"

\* C27: a demand type that is not one of constant, step, random and
\* seasonal is not an error: construction and run() succeed and the customer
\* demand is 4 in every week, whatever the demand parameters are; and with
\* the demand parameters left unset and the constant type the demand is 4 in
\* every week.
KnownDemandTypes == {"constant", "step", "random", "seasonal"}

ParamsWereUnset == config = PostInit([config EXCEPT !.demand = NoDemandParams("constant")])

C27_FallbackDemand ==
    (config.demand.type \notin KnownDemandTypes \/ ParamsWereUnset)
        => /\ \A k \in Indices(customer_demands) : customer_demands[k] = 4
           /\ status = "error" => \E n \in Nodes : order_policy[n].kind = "raise"
           /\ pc = "finish" => Len(customer_demands) = weeks_to_run

C27_Witness ==
    /\ config.demand.type \notin KnownDemandTypes
    /\ config.demand.base_demand # 4
    /\ status = "completed"
    /\ Len(customer_demands) = config.weeks
    /\ \A k \in Indices(customer_demands) : customer_demands[k] = 4

\* C28: the base-stock policy returns exactly max(0, target - IP) with
\* IP = inventory - backlog + pending orders, for every integer context and
\* target level: never a negative quantity, 0 whenever IP >= target, and
\* otherwise the quantity that raises IP to the target.
Returned(policy_type) ==
    /\ policy_manager.policy.type = policy_type
    /\ policy_manager.returned # <<>>

Present(d, key) == IF key \in DOMAIN d THEN d[key] ELSE 0

C28_BaseStock ==
    Returned("base_stock") =>
        LET c == policy_manager.policy.node_context
            params == policy_manager.policy.custom_params
            target == IF "base_stock_level" \in DOMAIN params
                      THEN params.base_stock_level ELSE 20
            IP == Present(c, "inventory") - Present(c, "backlog")
                      + Present(c, "pending_orders")
            q == policy_manager.returned[1].quantity
        IN  /\ q >= 0
            /\ IP >= target => q = 0
            /\ IP < target => q + IP = target

C28_Witness ==
    /\ Returned("base_stock")
    /\ policy_manager.policy.node_context = [inventory |-> 0, backlog |-> 1]
    /\ policy_manager.policy.custom_params = [base_stock_level |-> 1]
    /\ policy_manager.returned[1].quantity = 2

\* C29: for every non-negative forecast of 1 to 7 periods and positive
\* ordering and holding costs, the Silver-Meal policy orders the sum of the
\* first n forecast values, where n in 1..len(forecast) minimizes
\* (orderingCost + sum over i in 2..n of forecast[i]*(i-1)*holdingCost) / n,
\* the smallest such n on ties; it never looks beyond 7 periods and never
\* returns a negative quantity.
SilverMealForecast ==
    ForecastDemand(policy_manager.returned[1].demand_history,
                   policy_manager.forecast_horizon)

\* The cost of covering n periods, in units of 1/96, before the division
\* by n.
CoverCost(forecast, n, holding_cost, ordering_cost) ==
    ForecastUnit * HoldingUnit * ordering_cost
        + SumSeq([i \in 1..n |-> forecast[i] * (i - 1) * holding_cost])

Cheapest(forecast, limit, holding_cost, ordering_cost) ==
    CHOOSE n \in 1..limit :
        /\ \A m \in 1..limit :
               CoverCost(forecast, n, holding_cost, ordering_cost) * m
                   <= CoverCost(forecast, m, holding_cost, ordering_cost) * n
        /\ \A m \in 1..(n - 1) :
               CoverCost(forecast, n, holding_cost, ordering_cost) * m
                   < CoverCost(forecast, m, holding_cost, ordering_cost) * n

SilverMealCase ==
    /\ Returned("silver_meal")
    /\ Len(SilverMealForecast) \in 1..7

\* The quantity to order according to the claim, in units of 1/48.
SilverMealSum ==
    LET params == policy_manager.policy.custom_params
        holding_cost == IF "holding_cost" \in DOMAIN params THEN params.holding_cost ELSE 1
        ordering_cost == IF "ordering_cost" \in DOMAIN params THEN params.ordering_cost ELSE 10
        forecast == SilverMealForecast
        n == Cheapest(forecast, Len(forecast), holding_cost, ordering_cost)
    IN  SumSeq(SubSeq(forecast, 1, n))

C29_SilverMeal ==
    SilverMealCase =>
        /\ policy_manager.returned[1].quantity >= 0
        /\ policy_manager.returned[1].quantity * ForecastUnit = SilverMealSum

\* The same with the integer part of the sum: what the policy returns.
SilverMealTruncated ==
    /\ SilverMealCase =>
           policy_manager.returned[1].quantity = SilverMealSum \div ForecastUnit
    /\ Returned("silver_meal") =>
           \E n \in 0..SilverMealPeriods :
               n <= Len(SilverMealForecast)
               /\ policy_manager.returned[1].quantity
                      = (IF n = 0 THEN DefaultForecastless
                         ELSE SumSeq(SubSeq(SilverMealForecast, 1, n)) \div ForecastUnit)

\* C30: a policy created for the MANUAL type, with no decision supplied
\* from outside, and a policy created for the CUSTOM type whose policy_name
\* is missing or not registered, return the default fallback quantity 4 for
\* every week.
CustomUnresolved ==
    /\ Returned("custom")
    /\ policy_manager.policy.kind \in {"fallback", "policy_function"}

C30_CustomFallback ==
    CustomUnresolved => policy_manager.returned[1].quantity = 4

C30_ManualFallback ==
    /\ Returned("manual") => policy_manager.returned[1].quantity = 4
    /\ C30_CustomFallback

\* C31: a CUSTOM policy is resolved once, when create_policy is called: a
\* policy created while its policy_name is not registered returns the
\* fallback 4 on every later call, also after the name is registered, and a
\* policy created after the registration keeps calling the callback that
\* was registered when it was created, also after the name is registered
\* again with another callback.
NamedCustomCreated ==
    /\ policy_manager'.policy # policy_manager.policy
    /\ policy_manager'.policy.type = "custom"
    /\ "name" \in DOMAIN policy_manager'.policy

NamedCustomCalled ==
    /\ policy_manager'.policy = policy_manager.policy
    /\ policy_manager'.custom_policies = policy_manager.custom_policies
    /\ policy_manager'.returned # policy_manager.returned
    /\ policy_manager'.returned # <<>>
    /\ policy_manager.policy.type = "custom"
    /\ "name" \in DOMAIN policy_manager.policy

RegisteredAs(name) ==
    IF name \in PolicyNames THEN policy_manager.custom_policies[name] ELSE NoPolicy

C31_ResolvedOnce ==
    [][ /\ NamedCustomCreated =>
              LET created_policy == policy_manager'.policy
                  callback == RegisteredAs(created_policy.name)
              IN  IF callback = NoPolicy
                  THEN created_policy.kind = "fallback" /\ created_policy.q = 4
                  ELSE created_policy.kind = "callback" /\ created_policy.q = callback.q
        /\ NamedCustomCalled =>
              policy_manager'.returned[1].quantity = policy_manager.policy.q ]_vars

C31_Witness ==
    /\ Returned("custom")
    /\ policy_manager.policy.kind = "callback"
    /\ policy_manager.policy.q = 7
    /\ policy_manager.returned[1].registered = ConstPolicy(0)
    /\ policy_manager.returned[1].quantity = 7

C31_WitnessFallback ==
    /\ Returned("custom")
    /\ policy_manager.policy.kind = "fallback"
    /\ policy_manager.returned[1].registered # NoPolicy
    /\ policy_manager.returned[1].quantity = 4

\* C32: for every node, the Factory included, the orders_placed value
\* recorded in the history for week T is the quantity the node's policy
\* decided in week T: 0 if the policy returned no positive quantity, and for
\* the Factory the production quantity scheduled in week T.
DecidedIn(n, week) ==
    SumQuantity(SelectSeq(created,
                          LAMBDA e : /\ e.kind = (IF n = "Factory" THEN "job" ELSE "order")
                                     /\ e.from_node = n
                                     /\ e.created = week))

OrdersPlacedRecorded(n) ==
    \A k \in Indices(history[n]) : history[n][k].orders_placed = DecidedIn(n, k - 1)

C32_OrdersPlacedRecorded == \A n \in Nodes : OrdersPlacedRecorded(n)

\* The same for the nodes that order from an upstream node.
OrderingNodesRecorded == \A n \in Nodes \ {"Factory"} : OrdersPlacedRecorded(n)

\* C33: for every node, the shipments_received value recorded in the
\* history for week T is the total quantity of the shipments added to the
\* node's inventory in week T, and the shipments_sent value is the total
\* quantity the node shipped in week T.
ReceivedIn(n, week) ==
    SumQuantity(SelectSeq(consumed,
                          LAMBDA e : e.kind = "shipment" /\ e.node = n /\ e.week = week))

ShippedIn(n, week) ==
    SumQuantity(SelectSeq(outgoing_shipments[n], LAMBDA sh : sh.week_shipped = week))

ShipmentsSentRecorded ==
    \A n \in Nodes : \A k \in Indices(history[n]) :
        history[n][k].shipments_sent = ShippedIn(n, k - 1)

C33_ShipmentsRecorded ==
    /\ \A n \in Nodes : \A k \in Indices(history[n]) :
           history[n][k].shipments_received = ReceivedIn(n, k - 1)
    /\ ShipmentsSentRecorded

\* C34: for every order delay of at least one week, the default 2 included,
\* the default policy of the Wholesaler, the Distributor and the Factory in
\* week T returns the quantity of the most recent order the node has
\* received by week T, for the Factory capped at the production capacity,
\* and the default 4 only while the node has not yet received any order.
DefaultDecides(n) ==
    /\ pc = "policy"
    /\ Running = n
    /\ order_policy[n] = DefaultPolicy
    /\ config.order_delay >= 1

MostRecentOrder(n) ==
    IF orders_received[n] = <<>> THEN 4
    ELSE IF n = "Factory"
    THEN Min(Last(orders_received[n]).quantity, config.production_capacity)
    ELSE Last(orders_received[n]).quantity

C34_DefaultFollowsOrders ==
    \A n \in {"Wholesaler", "Distributor", "Factory"} :
        DefaultDecides(n) => GetOrderQuantity(n, now) = MostRecentOrder(n)

\* The same for an order delay of exactly one week and a downstream node
\* that has ordered in the week before.
DefaultFollowsLastWeek ==
    \A n \in {"Wholesaler", "Distributor", "Factory"} :
        (DefaultDecides(n) /\ config.order_delay = 1 /\ orders_received[n] # <<>>
            /\ Last(orders_received[n]).week_placed = now - 1)
        => GetOrderQuantity(n, now) = MostRecentOrder(n)

\* C35: after a run of W weeks that ends completed, the total_weeks of the
\* collector's summary is W, the number of weeks each node processed (so
\* that a run of 10 weeks reaches the 10 weeks from which the bullwhip ratio
\* is computed).
TicksProcessed == \A n \in Nodes : Len(history[n]) = weeks_to_run

C35_TotalWeeks ==
    status = "completed" => (TicksProcessed /\ metrics.total_weeks = weeks_to_run)

\* What the collector reports: the week of its last collection, one less
\* than the number of weeks processed.
TotalWeeksOneLess ==
    status = "completed" => (TicksProcessed /\ metrics.total_weeks = weeks_to_run - 1)

\* C36: in every reachable state, every per-node fill rate and the overall
\* fill rate the collector reports lie in the interval [0, 1]: the summed
\* backlog never exceeds the summed demand.
InUnitInterval(f) == f.den > 0 /\ 0 <= f.num /\ f.num <= f.den

C36_FillRateRange ==
    /\ \A n \in DOMAIN CalculateServiceLevels(metrics) :
           InUnitInterval(CalculateServiceLevels(metrics)[n])
    /\ InUnitInterval(metrics.fill_rate)


\* C37: once the game status is COMPLETED or ABANDONED, no call to
\* submit_player_decision advances the simulation clock, makes a node
\* process a further tick or changes a node's inventory, backlog, queues or
\* history; and the simulation clock never exceeds the number of weeks the
\* simulation is configured with.
GameOver == game.status \in {"completed", "abandoned"}

\* A step of a call to submit_player_decision: its first step, or a step of
\* the env.run it started.
SubmitStep ==
    /\ last_call'.op = "submit_player_decision"
    /\ calls' = calls + 1 \/ last_call.result = "pending"

C37_NoAdvanceAfterEnd ==
    [][ /\ (GameOver /\ SubmitStep) => UNCHANGED <<now, nodeVars>>
        /\ now' <= config'.weeks ]_vars

\* The same for a game whose simulation is configured with at least as many
\* weeks as the rules of the game allow (as it is when the controller
\* builds the configuration itself).
WeeksCoverGame == config.weeks >= game.total_weeks

NoAdvanceWhenWeeksCoverGame ==
    [][ WeeksCoverGame =>
            /\ (GameOver /\ SubmitStep) => UNCHANGED <<now, nodeVars>>
            /\ now' <= config'.weeks ]_vars

\* A decision is submitted and accepted after the game is over.
DecisionAfterGameOver ==
    /\ GameOver
    /\ NoCallInProgress
    /\ last_call = [op |-> "submit_player_decision", result |-> "True"]

\* The clock is past the weeks of the simulation's configuration.
ClockPastConfiguredWeeks == now > config.weeks

====
